---- MODULE Spec2Model ----
(***************************************************************************)
(* AgentAuth core: the authorization decision engine (AuthService), the    *)
(* merchant redemption of authorization codes (VerifyService), the         *)
(* background flush of the authorization queue, the idempotency            *)
(* middleware, the hash-chained audit log (ComplianceAuditService), the    *)
(* velocity checks (VelocityService) and the rate limiter                  *)
(* (RateLimitMiddleware over CacheService.check_rate_limit).               *)
(*                                                                         *)
(* Time is in whole seconds.  Amounts are in cents, so the 0.01 tolerance  *)
(* of VerifyService.verify is one unit.  A Python dict is a function whose *)
(* DOMAIN is the set of its keys; None of an optional timestamp is NoTime, *)
(* None of an optional string is "" (both are falsy in the source), and    *)
(* the absent authorization code is 0.  Of a code's record the fields the  *)
(* service reads again are kept; used_at, verified_at and verified_by are  *)
(* written with is_used and never read.                                    *)
(***************************************************************************)
EXTENDS Integers, Sequences, FiniteSets, TLC

VARIABLES
    now,            \* wall clock, datetime.now(timezone.utc)
    consentDb,      \* durable Consent table: consent_id -> mutable columns
    authDb,         \* durable Authorization table: authorization_code -> row
    consent_cache,  \* auth_service._consent_cache: consent_id -> (data, cached_at)
    auth_cache,     \* auth_service._auth_cache: authorization_code -> dict
    auth_queue,     \* auth_service._auth_queue: deque of pending Authorization rows
    nextCode,       \* the next value of generate_authorization_code()
    issued,         \* the ALLOW responses handed out: authorization_code -> what was authorized
    areq,           \* authorize requests (coroutines of AuthService.authorize)
    lastAuth,       \* the authorize call that has just returned, as its caller saw it
    vreq,           \* verify requests (coroutines of VerifyService.verify)
    verified,       \* the codes for which verify has returned valid=true
    lastVerify,     \* the verify call that has just returned, as the merchant saw it
    idem_store,     \* Redis keys agentauth:idem:{key} -> cached response
    lock_store,     \* Redis keys lock:{key} -> expiry of the SET NX EX lock
    redisUp,        \* whether the Redis backend answers
    ireq,           \* requests inside IdempotencyMiddleware.dispatch
    handlerRuns,    \* number of completed call_next invocations
    succeeded,      \* cache key -> number of call_next invocations that returned 2xx
    firstResponse,  \* cache key -> the first 2xx response dispatch returned for it
    lastIdem,       \* the request dispatch has just answered
    audit_last_hash, \* ComplianceAuditService._last_hash
    audit_buffer,   \* ComplianceAuditService._buffer
    audit_store,    \* Redis: developer_id -> the stored entries of its timeline
    audit_events,   \* number of AuditEntry objects created (their uuid and their instant)
    sha256,         \* the inputs hashed so far; the digest of an input is its place
    tenant_last,    \* developer_id -> record_hash of the entry last appended for it
    tampered,       \* the event_id of the stored entry that was modified, if any
    lastAudit,      \* the audit call that has just returned
    velocity_store, \* Redis keys velocity:user:{user_id}:* -> what is stored under them
    txn_instants,   \* user_id -> the instants of the last minute at which
                    \* increment_transaction_count counted a transaction
    lastVelocity,   \* the call of VelocityService that has just returned
    rate_counters,  \* Redis keys agentauth:ratelimit:{api_key}:{window} -> counter
    rreq,           \* requests inside RateLimitMiddleware.dispatch
    rateCalls,      \* how many requests the rate limiter has taken in
    rate_limit_store, \* RateLimitStore.requests: key -> instants of the requests let through
    reached,        \* (caller identity, window) -> requests passed on to the handler
    lastRate        \* the request RateLimitMiddleware.dispatch has just answered

authVars == <<consentDb, authDb, consent_cache, auth_cache, auth_queue, nextCode, issued,
              areq, vreq, verified>>
idemVars == <<idem_store, lock_store, redisUp, ireq, handlerRuns, succeeded, firstResponse>>
auditVars == <<audit_last_hash, audit_buffer, audit_store, audit_events, sha256, tenant_last,
               tampered>>
rateVars == <<rate_counters, rreq, rateCalls, rate_limit_store, reached>>
vars == <<now, consentDb, authDb, consent_cache, auth_cache, auth_queue, nextCode, issued,
          areq, vreq, verified, idem_store, lock_store, redisUp, ireq, handlerRuns,
          succeeded, firstResponse, lastAuth, lastVerify, lastIdem, audit_last_hash,
          audit_buffer, audit_store, audit_events, sha256, tenant_last, tampered, lastAudit,
          velocity_store, txn_instants, lastVelocity, rate_counters, rreq, rateCalls,
          rate_limit_store, reached, lastRate>>

----------------------------------------------------------------------------
(* Bounds of the model *)

MaxCodes == 2       \* authorization codes issued
NumAuthReqs == 1    \* authorize calls in flight at once
NumVerReqs == 2     \* verify calls in flight at once
MaxPeriods == 1     \* lifetimes (of a code, a cache entry, a lock) the clock runs through
NumIdemReqs == 2    \* requests inside the idempotency middleware at once
MaxRuns == 2        \* completed call_next invocations
MaxPaidCodes == 1   \* codes issued where merchants redeem them
MaxLogs == 3        \* audit entries logged after the ones the ledger starts with
NumRateReqs == 2    \* requests inside the rate limiter at once
MaxRateCalls == 4   \* requests the rate limiter takes in

(* Program constants *)

CACHE_TTL_SECONDS == 300
AUTH_CODE_EXPIRY_SECONDS == 300
CONSENT_CACHE_MAX == 10000
AUTH_QUEUE_MAXLEN == 10000
FLUSH_BATCH_SIZE == 100
AMOUNT_TOLERANCE == 1
LOCK_TTL_SECONDS == 60
TTL_HOURS == 24

BUFFER_SIZE == 100
QUERY_LIMIT == 1000

NoTime == -1
NoCode == 0

\* "0" * 64, the genesis hash: no digest of sha256
GENESIS_HASH == 0
NoEvent == 0

AuthReqs == 1..NumAuthReqs
VerReqs == 1..NumVerReqs
IdemReqs == 1..NumIdemReqs
RateReqs == 1..NumRateReqs

\* The instants at which something happens: around each multiple of the
\* 300 s code / cache lifetime.
TimePoints ==
    {0} \cup UNION {{CACHE_TTL_SECONDS * k - 1, CACHE_TTL_SECONDS * k, CACHE_TTL_SECONDS * k + 1} :
                      k \in 1..MaxPeriods}

\* ... and, for the idempotency lock, around each multiple of its 60 s lifetime
LockTimePoints ==
    {0} \cup UNION {{LOCK_TTL_SECONDS * k - 1, LOCK_TTL_SECONDS * k, LOCK_TTL_SECONDS * k + 1} :
                      k \in 1..MaxPeriods}

\* Dict helpers
EmptyDict == [x \in {} |-> 0]
Put(d, k, v) == [x \in (DOMAIN d) \cup {k} |-> IF x = k THEN v ELSE d[x]]
Del(d, k) == [x \in (DOMAIN d) \ {k} |-> d[x]]

----------------------------------------------------------------------------
(* Consents: created upstream; only revoke changes them afterwards.        *)

Consents == {"cons_1", "cons_2"}

\* ConsentConstraints of each consent, and its expires_at.  cons_3 is the
\* consent of a shopper with a limit of 2,000.00 USD, for the velocity checks.
ConsentConstraints(c) ==
    IF c = "cons_1"
    THEN [max_amount |-> 2, currency |-> "USD",
          allowed_merchants |-> {}, allowed_categories |-> {}]
    ELSE IF c = "cons_3"
    THEN [max_amount |-> 200000, currency |-> "USD",
          allowed_merchants |-> {}, allowed_categories |-> {}]
    ELSE [max_amount |-> 1, currency |-> "EUR",
          allowed_merchants |-> {"m1"}, allowed_categories |-> {"cat1"}]

\* ConsentOptions.single_use, which the token carries as its single_use
\* claim: true by default; the shopper's consent was created with false
ConsentSingleUse(c) == c # "cons_3"

\* Consent.user_id, the sub of the token
ConsentUser(c) == "user_1"

ConsentExpiresAt(c) == IF c = "cons_1" THEN 600 ELSE 300

\* A delegation token: the signed snapshot of a consent, or a forgery
\* (signed = FALSE) that names the consent.
Token(c) == [consent_id |-> c, signed |-> TRUE]

Forged(c) == [consent_id |-> c, signed |-> FALSE]

Tx(amount, currency, merchant_id, merchant_category) ==
    [amount |-> amount, currency |-> currency,
     merchant_id |-> merchant_id, merchant_category |-> merchant_category]

\* The authorize calls: for each consent a transaction at its limit, one
\* above the limit alone and one above it that breaks every other constraint
\* too, and one for each other constraint broken alone; a transaction without
\* merchant data; a forged token.
AuthorizeCalls ==
    { <<Token("cons_1"), Tx(2, "USD", "m2", "cat2")>>,
      <<Token("cons_1"), Tx(4, "USD", "m1", "cat1")>>,
      <<Token("cons_1"), Tx(4, "EUR", "m1", "cat1")>>,
      <<Token("cons_1"), Tx(2, "EUR", "m1", "cat1")>>,
      <<Token("cons_2"), Tx(1, "EUR", "m1", "cat1")>>,
      <<Token("cons_2"), Tx(2, "EUR", "m1", "cat1")>>,
      <<Token("cons_2"), Tx(2, "USD", "m2", "cat2")>>,
      <<Token("cons_2"), Tx(1, "USD", "m1", "cat1")>>,
      <<Token("cons_2"), Tx(1, "EUR", "m2", "cat1")>>,
      <<Token("cons_2"), Tx(1, "EUR", "m1", "cat2")>>,
      <<Token("cons_2"), Tx(1, "EUR", "", "")>>,
      <<Forged("cons_1"), Tx(2, "USD", "m2", "cat2")>> }

\* The authorize calls whose codes the merchants then redeem, and what the
\* merchants present: the authorized amount and currency, an amount within
\* the tolerance, another amount, another currency
PaidCalls == {<<Token("cons_1"), Tx(2, "USD", "m1", "")>>}

Payments == {<<2, "USD">>, <<1, "USD">>, <<4, "USD">>, <<2, "EUR">>}

\* TokenService.create_delegation_token: the claims of the token of consent c
TokenClaims(c) ==
    [consent_id |-> c, exp |-> ConsentExpiresAt(c), constraints |-> ConsentConstraints(c)]

\* verify_token with the amount limit made exclusive (>= for >)
verify_token_limit_exclusive(token, tx, t) ==
    LET decoded == TokenClaims(token.consent_id)
        k == decoded.constraints
    IN  IF ~token.signed
        THEN [valid |-> FALSE, reason |-> "invalid_token"]
        ELSE IF decoded.exp <= t
        THEN [valid |-> FALSE, reason |-> "token_expired"]
        ELSE IF tx.amount >= k.max_amount
        THEN [valid |-> FALSE, reason |-> "amount_exceeded"]
        ELSE IF tx.currency # "" /\ tx.currency # k.currency
        THEN [valid |-> FALSE, reason |-> "currency_mismatch"]
        ELSE IF k.allowed_merchants # {} /\ tx.merchant_id # ""
                /\ tx.merchant_id \notin k.allowed_merchants
        THEN [valid |-> FALSE, reason |-> "merchant_not_allowed"]
        ELSE IF k.allowed_categories # {} /\ tx.merchant_category # ""
                /\ tx.merchant_category \notin k.allowed_categories
        THEN [valid |-> FALSE, reason |-> "category_not_allowed"]
        ELSE [valid |-> TRUE, reason |-> ""]

\* verify_token with the currency checked before the amount
verify_token_currency_first(token, tx, t) ==
    LET decoded == TokenClaims(token.consent_id)
        k == decoded.constraints
    IN  IF ~token.signed
        THEN [valid |-> FALSE, reason |-> "invalid_token"]
        ELSE IF decoded.exp <= t
        THEN [valid |-> FALSE, reason |-> "token_expired"]
        ELSE IF tx.currency # "" /\ tx.currency # k.currency
        THEN [valid |-> FALSE, reason |-> "currency_mismatch"]
        ELSE IF tx.amount > k.max_amount
        THEN [valid |-> FALSE, reason |-> "amount_exceeded"]
        ELSE IF k.allowed_merchants # {} /\ tx.merchant_id # ""
                /\ tx.merchant_id \notin k.allowed_merchants
        THEN [valid |-> FALSE, reason |-> "merchant_not_allowed"]
        ELSE IF k.allowed_categories # {} /\ tx.merchant_category # ""
                /\ tx.merchant_category \notin k.allowed_categories
        THEN [valid |-> FALSE, reason |-> "category_not_allowed"]
        ELSE [valid |-> TRUE, reason |-> ""]

\* TokenService.verify_token with a transaction, at time t
verify_token(token, tx, t) ==
    LET decoded == TokenClaims(token.consent_id)
        k == decoded.constraints
    IN  IF ~token.signed
        THEN [valid |-> FALSE, reason |-> "invalid_token"]
        ELSE IF decoded.exp <= t
        THEN [valid |-> FALSE, reason |-> "token_expired"]
        ELSE IF tx.amount > k.max_amount
        THEN [valid |-> FALSE, reason |-> "amount_exceeded"]
        ELSE IF tx.currency # "" /\ tx.currency # k.currency
        THEN [valid |-> FALSE, reason |-> "currency_mismatch"]
        ELSE IF k.allowed_merchants # {} /\ tx.merchant_id # ""
                /\ tx.merchant_id \notin k.allowed_merchants
        THEN [valid |-> FALSE, reason |-> "merchant_not_allowed"]
        ELSE IF k.allowed_categories # {} /\ tx.merchant_category # ""
                /\ tx.merchant_category \notin k.allowed_categories
        THEN [valid |-> FALSE, reason |-> "category_not_allowed"]
        ELSE [valid |-> TRUE, reason |-> ""]

\* ConsentService.get_active_consent: the row, if the consent is live
NoRow == [found |-> FALSE, is_active |-> FALSE, revoked |-> FALSE, expires_at |-> NoTime]

ConsentIsLive(db, c, t) ==
    /\ c \in DOMAIN db
    /\ db[c].is_active
    /\ ~db[c].revoked
    /\ ConsentExpiresAt(c) > t

get_active_consent(db, c, t) ==
    IF ConsentIsLive(db, c, t)
    THEN [found |-> TRUE, is_active |-> db[c].is_active,
          revoked |-> db[c].revoked, expires_at |-> ConsentExpiresAt(c)]
    ELSE NoRow

\* AuthService._get_cached_consent: the entry is served while younger than the TTL
\* an entry still served when it is exactly CACHE_TTL_SECONDS old
CacheEntryFresh_inclusive(cache, c, t) ==
    c \in DOMAIN cache /\ t - cache[c].cached_at <= CACHE_TTL_SECONDS

CacheEntryFresh(cache, c, t) ==
    c \in DOMAIN cache /\ t - cache[c].cached_at < CACHE_TTL_SECONDS

\* ... and a stale entry is deleted by the lookup
AfterCacheLookup(cache, c, t) ==
    IF c \in DOMAIN cache /\ ~CacheEntryFresh(cache, c, t) THEN Del(cache, c) ELSE cache

\* AuthService._check_consent_cached, cache-hit branch: validate the cached data
CachedConsentValid(data, t) ==
    data.is_active /\ ~data.revoked /\ data.expires_at # NoTime /\ data.expires_at > t

\* AuthService._cache_consent: insert, then evict the oldest entry above the limit
Oldest(cache) ==
    CHOOSE k \in DOMAIN cache : \A j \in DOMAIN cache : cache[k].cached_at <= cache[j].cached_at

\* a cache that evicts nothing
cache_consent_unbounded(cache, c, data, t) ==
    Put(cache, c, [data |-> data, cached_at |-> t])

cache_consent(cache, c, data, t) ==
    LET ins == Put(cache, c, [data |-> data, cached_at |-> t])
    IN  IF Cardinality(DOMAIN ins) > CONSENT_CACHE_MAX THEN Del(ins, Oldest(ins)) ELSE ins

\* a deque without maxlen
DequeAppend_unbounded(q, x) == Append(q, x)

\* deque(maxlen=...).append: the oldest element falls out of a full deque
DequeAppend(q, x) ==
    IF Len(q) >= AUTH_QUEUE_MAXLEN THEN Append(Tail(q), x) ELSE Append(q, x)


----------------------------------------------------------------------------
(* Calls and requests *)

\* What the caller asked, as the contract of authorize speaks of it
WithinConstraints(tx, k) ==
    /\ tx.amount <= k.max_amount
    /\ tx.currency = k.currency
    /\ (k.allowed_merchants = {} \/ tx.merchant_id \in k.allowed_merchants)
    /\ (k.allowed_categories = {} \/ tx.merchant_category \in k.allowed_categories)

NoAsk == [within |-> FALSE, exceeds |-> FALSE, tokenLive |-> FALSE]

Asked(token, tx, t) ==
    [within |-> WithinConstraints(tx, ConsentConstraints(token.consent_id)),
     exceeds |-> tx.amount > ConsentConstraints(token.consent_id).max_amount,
     tokenLive |-> t < ConsentExpiresAt(token.consent_id)]

\* One call of authorize as its caller sees it: what was presented, the state
\* of the consent when the call began, and the AuthorizationResponse.
\* storeFailed: the consent query of the call failed; a call that raised has
\* no AuthorizationResponse, its decision stays "" and the route answers 500.
NoAuthCall ==
    [token |-> Forged(""), tx |-> Tx(0, "", "", ""), asked |-> NoAsk,
     liveAtStart |-> FALSE, revokedAtStart |-> FALSE, tokenOk |-> FALSE,
     decision |-> "", reason |-> "", authorization_code |-> NoCode,
     expires_at |-> NoTime, consent_id |-> "", storeFailed |-> FALSE]

\* A coroutine of AuthService.authorize: its position and its locals
IdleAuthReq ==
    [pc |-> "idle", amount |-> 0, currency |-> "", row |-> NoRow, call |-> NoAuthCall]

\* What the merchant asked, measured against the ALLOW response of the code
NoRedeem ==
    [issued |-> FALSE, matching |-> FALSE, beforeExpiry |-> FALSE, afterExpiry |-> FALSE]

Redeemed(code, amount, currency, t) ==
    IF code \in DOMAIN issued
    THEN [issued |-> TRUE,
          matching |-> amount = issued[code].amount /\ currency = issued[code].currency,
          beforeExpiry |-> t < issued[code].expires_at,
          afterExpiry |-> t > issued[code].expires_at]
    ELSE NoRedeem

\* One call of verify as the merchant sees it.  verifiedAtStart: a verify of
\* the code had returned valid=true when this call began; overtaken: one
\* returned valid=true while this call was running (overtakenByMatching: for
\* the matching amount and currency, before expiry).
NoVerifyCall ==
    [authorization_code |-> NoCode, asked |-> NoRedeem, verifiedAtStart |-> FALSE,
     overtaken |-> FALSE, overtakenByMatching |-> FALSE, valid |-> FALSE, error |-> "",
     path |-> ""]

\* A coroutine of VerifyService.verify
IdleVerReq == [pc |-> "idle", call |-> NoVerifyCall]

NoResponse == [status_code |-> 0, body |-> 0, replayed |-> FALSE, error |-> ""]

\* An HTTP request as the middleware reads it.  A header that is sliced or
\* measured is a sequence of characters, <<>> when the header is absent; the
\* path is the sequence of its segments.
NoRequest ==
    [method |-> "", path |-> <<>>, authorization |-> <<>>, x_api_key |-> <<>>,
     idempotency_key |-> <<>>]

\* the API credentials a request carries: who the caller is
Credentials(request) == <<request.authorization, request.x_api_key>>

\* One request as IdempotencyMiddleware.dispatch answered it.  hadFirst: a 2xx
\* response had been returned for the cache key when the request began;
\* contended: when it asked for the lock, another request being processed
\* held it and no response was cached; invoked: call_next ran for it.
NoIdemCall ==
    [request |-> NoRequest, cache_key |-> "", hadFirst |-> FALSE, contended |-> FALSE,
     invoked |-> FALSE, outcome |-> NoResponse]

\* A request inside dispatch: its position, the response of call_next, and
\* the call so far
IdleIdemReq == [pc |-> "idle", response |-> NoResponse, call |-> NoIdemCall]

\* One call of ComplianceAuditService as its caller sees it: log returns the
\* entry (expected: the record_hash of the entry appended before it for the
\* same developer_id, or the genesis hash), verify_integrity its verdict.
NoEntry ==
    [event_id |-> NoEvent, timestamp |-> 0, developer_id |-> "", details |-> "",
     previous_hash |-> GENESIS_HASH, record_hash |-> GENESIS_HASH]

NoAudit ==
    [op |-> "", developer_id |-> "", entry |-> NoEntry, expected |-> GENESIS_HASH,
     valid |-> FALSE, entries_checked |-> 0, errors |-> {}]

\* No step of authorize, verify, revoke, the flusher or the middleware calls
\* the audit service.
NoAuditCall == UNCHANGED auditVars /\ lastAudit' = NoAudit

\* VelocityCheckResult, with the result of each of the five rules in the
\* order in which check_velocity runs them.  rule_triggered is "" for None.
NoVelocityResult ==
    [allowed |-> FALSE, rule_triggered |-> "", risk_score |-> 0, recommendation |-> "",
     results |-> <<>>]

\* One call of VelocityService.check_velocity as its caller sees it: the
\* transaction, the instant, and the result
NoVelocity ==
    [op |-> "", user_id |-> "", amount |-> 0, merchant_id |-> "", location |-> "",
     at |-> NoTime, result |-> NoVelocityResult]

\* One request as RateLimitMiddleware.dispatch answered it.  identity: the
\* key the middleware limits it under; window: the rate-limit window the
\* check put it in; backendFailed: Redis raised while the check ran;
\* current: what the counter was after its increment.
NoRate ==
    [identity |-> <<>>, window |-> NoTime, backendFailed |-> FALSE, current |-> 0,
     status_code |-> 0, error |-> "", invoked |-> FALSE]

\* A request inside RateLimitMiddleware.dispatch: its position, the Redis
\* key of its counter, the limit and the window it is checked against, and
\* the call so far
IdleRateReq ==
    [pc |-> "idle", key |-> <<>>, limit |-> 0, window_seconds |-> 0, call |-> NoRate]

\* No step of authorize, verify, revoke, the flusher, the idempotency
\* middleware or the audit service calls the velocity service, and none of
\* them is a step of the rate limiter.
NoVelocityCall == UNCHANGED <<velocity_store, txn_instants>> /\ lastVelocity' = NoVelocity

NoRateCall == UNCHANGED rateVars /\ lastRate' = NoRate

NoGuardCall == NoVelocityCall /\ NoRateCall

\* A step of authorize, of verify, of revoke or of the flusher leaves the
\* middleware alone, and the other way round; what a step does not return is
\* not in lastAuth, lastVerify, lastIdem after it.
OnlyAuthVerify == UNCHANGED idemVars /\ lastIdem' = NoIdemCall /\ NoAuditCall /\ NoGuardCall

OnlyIdem ==
    /\ UNCHANGED authVars /\ lastAuth' = NoAuthCall /\ lastVerify' = NoVerifyCall
    /\ NoAuditCall /\ NoGuardCall

\* ComplianceAuditService.__init__, and nothing stored
InitAudit ==
    /\ audit_last_hash = GENESIS_HASH
    /\ audit_buffer = <<>>
    /\ audit_store = EmptyDict
    /\ audit_events = 0
    /\ sha256 = <<>>
    /\ tenant_last = EmptyDict
    /\ tampered = NoEvent
    /\ lastAudit = NoAudit

\* no authorization code has been issued
InitCodes ==
    /\ auth_cache = EmptyDict
    /\ auth_queue = <<>>
    /\ issued = EmptyDict

\* no velocity data, no rate-limit counter, no request in the rate limiter
InitVelocity ==
    /\ velocity_store = EmptyDict
    /\ txn_instants = EmptyDict
    /\ lastVelocity = NoVelocity

InitRate ==
    /\ rate_counters = EmptyDict
    /\ rreq = [r \in RateReqs |-> IdleRateReq]
    /\ rateCalls = 0
    /\ rate_limit_store = EmptyDict
    /\ reached = EmptyDict
    /\ lastRate = NoRate

\* the service with the consents of a set of consent ids on file
InitCore(consents) ==
    /\ now = 0
    /\ consentDb = [c \in consents |-> [is_active |-> TRUE, revoked |-> FALSE]]
    /\ authDb = EmptyDict
    /\ consent_cache = EmptyDict
    /\ nextCode = 1
    /\ areq = [r \in AuthReqs |-> IdleAuthReq]
    /\ lastAuth = NoAuthCall
    /\ vreq = [v \in VerReqs |-> IdleVerReq]
    /\ verified = EmptyDict
    /\ lastVerify = NoVerifyCall
    /\ idem_store = EmptyDict
    /\ lock_store = EmptyDict
    /\ redisUp = TRUE
    /\ ireq = [r \in IdemReqs |-> IdleIdemReq]
    /\ handlerRuns = 0
    /\ succeeded = EmptyDict
    /\ firstResponse = EmptyDict
    /\ lastIdem = NoIdemCall

InitApp == InitCore(Consents) /\ InitVelocity /\ InitRate

InitService == InitApp /\ InitCodes

Init == InitService /\ InitAudit

----------------------------------------------------------------------------
(* AuthService.authorize *)

\* AuthorizationResponse(decision="DENY", reason=...)
Deny(call, reason) == [call EXCEPT !.decision = "DENY", !.reason = reason]

\* Step 3 of authorize: the code goes into the in-memory table and onto the queue
AuthCacheEntry(rq, t) ==
    [consent_id |-> rq.call.token.consent_id, amount |-> rq.amount, currency |-> rq.currency,
     expires_at |-> t + AUTH_CODE_EXPIRY_SECONDS, is_used |-> FALSE]

AuthQueueItem(code, rq, t) ==
    [authorization_code |-> code, consent_id |-> rq.call.token.consent_id,
     amount |-> rq.amount, currency |-> rq.currency,
     expires_at |-> t + AUTH_CODE_EXPIRY_SECONDS]

\* Steps 3 and 4 of authorize: issue the code and return ALLOW
\* an ALLOW that writes the in-memory table and queues nothing
Grant_cache_only(r, rq) ==
    /\ auth_cache' = Put(auth_cache, nextCode, AuthCacheEntry(rq, now))
    /\ auth_queue' = auth_queue
    /\ nextCode' = nextCode + 1
    /\ issued' = Put(issued, nextCode,
                     [consent_id |-> rq.call.token.consent_id, amount |-> rq.amount,
                      currency |-> rq.currency,
                      expires_at |-> now + AUTH_CODE_EXPIRY_SECONDS])
    /\ lastAuth' = [rq.call EXCEPT !.decision = "ALLOW",
                                   !.authorization_code = nextCode,
                                   !.expires_at = now + AUTH_CODE_EXPIRY_SECONDS,
                                   !.consent_id = rq.call.token.consent_id]
    /\ areq' = [areq EXCEPT ![r] = IdleAuthReq]

Grant(r, rq) ==
    /\ auth_cache' = Put(auth_cache, nextCode, AuthCacheEntry(rq, now))
    /\ auth_queue' = DequeAppend(auth_queue, AuthQueueItem(nextCode, rq, now))
    /\ nextCode' = nextCode + 1
    /\ issued' = Put(issued, nextCode,
                     [consent_id |-> rq.call.token.consent_id, amount |-> rq.amount,
                      currency |-> rq.currency,
                      expires_at |-> now + AUTH_CODE_EXPIRY_SECONDS])
    /\ lastAuth' = [rq.call EXCEPT !.decision = "ALLOW",
                                   !.authorization_code = nextCode,
                                   !.expires_at = now + AUTH_CODE_EXPIRY_SECONDS,
                                   !.consent_id = rq.call.token.consent_id]
    /\ areq' = [areq EXCEPT ![r] = IdleAuthReq]

\* authorize up to its first await: token verification, then the consent
\* cache; on a miss the consent query is sent and answered by the store.
AuthorizeStart(r, token, tx) ==
    LET c == token.consent_id
        verification == verify_token(token, tx, now)
        call == [NoAuthCall EXCEPT !.token = token, !.tx = tx,
                    !.asked = Asked(token, tx, now),
                    !.tokenOk = verification.valid,
                    !.liveAtStart = ConsentIsLive(consentDb, c, now),
                    !.revokedAtStart = consentDb[c].revoked]
        rq == [IdleAuthReq EXCEPT !.amount = tx.amount, !.currency = tx.currency,
                  !.call = call]
    IN  /\ areq[r].pc = "idle"
        /\ \A q \in AuthReqs : q < r => areq[q].pc # "idle"
        /\ nextCode <= MaxCodes
        /\ UNCHANGED <<now, consentDb, authDb, vreq, verified>>
        /\ lastVerify' = NoVerifyCall
        /\ OnlyAuthVerify
        /\ IF ~verification.valid
           THEN /\ lastAuth' = Deny(call, verification.reason)
                /\ UNCHANGED <<consent_cache, auth_cache, auth_queue, nextCode, issued, areq>>
           ELSE IF CacheEntryFresh(consent_cache, c, now)
           THEN IF CachedConsentValid(consent_cache[c].data, now)
                THEN /\ Grant(r, rq)
                     /\ UNCHANGED consent_cache
                ELSE /\ lastAuth' = Deny(call, "consent_invalid")
                     /\ UNCHANGED <<consent_cache, auth_cache, auth_queue, nextCode, issued,
                                    areq>>
           ELSE /\ areq' = [areq EXCEPT ![r] =
                              [rq EXCEPT !.pc = "await_db",
                                         !.row = get_active_consent(consentDb, c, now)]]
                /\ consent_cache' = AfterCacheLookup(consent_cache, c, now)
                /\ lastAuth' = NoAuthCall
                /\ UNCHANGED <<auth_cache, auth_queue, nextCode, issued>>

\* authorize resumed with the answer of the consent query
AuthorizeResume(r) ==
    LET rq == areq[r]
        c == rq.call.token.consent_id
        consent_data == [is_active |-> rq.row.is_active, revoked |-> rq.row.revoked,
                         expires_at |-> rq.row.expires_at]
    IN  /\ rq.pc = "await_db"
        /\ UNCHANGED <<now, consentDb, authDb, vreq, verified>>
        /\ lastVerify' = NoVerifyCall
        /\ OnlyAuthVerify
        /\ IF ~rq.row.found
           THEN /\ lastAuth' = Deny(rq.call, "consent_invalid")
                /\ areq' = [areq EXCEPT ![r] = IdleAuthReq]
                /\ UNCHANGED <<consent_cache, auth_cache, auth_queue, nextCode, issued>>
           ELSE /\ consent_cache' = cache_consent(consent_cache, c, consent_data, now)
                /\ Grant(r, rq)

\* the code issued although the consent query failed
AuthorizeStoreDown_fail_open(r, outcome) ==
    LET rq == areq[r]
    IN  /\ rq.pc = "await_db"
        /\ UNCHANGED <<now, consentDb, authDb, vreq, verified, consent_cache>>
        /\ lastVerify' = NoVerifyCall
        /\ OnlyAuthVerify
        /\ Grant(r, [rq EXCEPT !.call.storeFailed = TRUE])

\* authorize resumed with the consent query failing.  "raise": the store
\* raises, the exception leaves _check_consent_cached and authorize, which
\* catch nothing, and the route turns it into HTTP 500 "Authorization failed".
\* "unknown": the lookup answers nothing and the consent counts as not found.
AuthorizeStoreDown(r, outcome) ==
    LET rq == areq[r]
        call == [rq.call EXCEPT !.storeFailed = TRUE]
    IN  /\ rq.pc = "await_db"
        /\ UNCHANGED <<now, consentDb, authDb, vreq, verified>>
        /\ lastVerify' = NoVerifyCall
        /\ OnlyAuthVerify
        /\ lastAuth' = IF outcome = "raise"
                       THEN [call EXCEPT !.reason = "internal_error"]
                       ELSE Deny(call, "consent_invalid")
        /\ areq' = [areq EXCEPT ![r] = IdleAuthReq]
        /\ UNCHANGED <<consent_cache, auth_cache, auth_queue, nextCode, issued>>

\* DELETE /v1/consents/{consent_id}: ConsentService.revoke_consent
RevokeConsent(c) ==
    /\ c \in DOMAIN consentDb
    /\ ~consentDb[c].revoked
    /\ consentDb' = [consentDb EXCEPT ![c] = [is_active |-> FALSE, revoked |-> TRUE]]
    /\ consent_cache' = Del(consent_cache, c)
    /\ UNCHANGED <<now, authDb, auth_cache, auth_queue, nextCode, issued, areq, vreq, verified>>
    /\ lastAuth' = NoAuthCall /\ lastVerify' = NoVerifyCall
    /\ OnlyAuthVerify

----------------------------------------------------------------------------
(* VerifyService.verify *)

\* the checks with a code still accepted one second after it expired
CodeError_late_expiry(auth, amount, currency, t) ==
    IF auth.is_used THEN "authorization_already_used"
    ELSE IF auth.expires_at + 1 < t THEN "authorization_expired"
    ELSE IF (IF auth.amount >= amount THEN auth.amount - amount ELSE amount - auth.amount)
               > AMOUNT_TOLERANCE
    THEN "amount_mismatch"
    ELSE IF auth.currency # currency THEN "currency_mismatch"
    ELSE ""

\* The checks made on the cached dict and, in the same order, on the row
CodeError(auth, amount, currency, t) ==
    IF auth.is_used THEN "authorization_already_used"
    ELSE IF auth.expires_at < t THEN "authorization_expired"
    ELSE IF (IF auth.amount >= amount THEN auth.amount - amount ELSE amount - auth.amount)
               > AMOUNT_TOLERANCE
    THEN "amount_mismatch"
    ELSE IF auth.currency # currency THEN "currency_mismatch"
    ELSE ""

\* the mark forgotten
MarkUsed_forgotten(auth) == auth

\* "Mark as used in cache" / "Step 6: Mark as used"
MarkUsed(auth) == [auth EXCEPT !.is_used = TRUE]

Redeemable(call) == call.asked.issued /\ call.asked.matching /\ call.asked.beforeExpiry

\* the call as it returns: what happened to its code while it ran
Returning(call) ==
    [call EXCEPT !.overtaken = ~call.verifiedAtStart
                                  /\ call.authorization_code \in DOMAIN verified,
                 !.overtakenByMatching = /\ ~call.verifiedAtStart
                                         /\ call.authorization_code \in DOMAIN verified
                                         /\ verified[call.authorization_code]]

\* VerificationResponse(valid=False, error=...)
Reject(call, error) == [Returning(call) EXCEPT !.valid = FALSE, !.error = error]

\* VerificationResponse(valid=True, ...)
Accept(call) == [Returning(call) EXCEPT !.valid = TRUE, !.error = ""]

\* the codes for which valid=true has been returned (TRUE: to a matching call)
AfterAccept(call) ==
    LET code == call.authorization_code
    IN  Put(verified, code, (code \in DOMAIN verified /\ verified[code]) \/ Redeemable(call))

\* verify that looks the code up in the durable store only
VerifyStart_durable_only(v, code, amount, currency) ==
    LET call == [NoVerifyCall EXCEPT !.authorization_code = code,
                    !.asked = Redeemed(code, amount, currency, now),
                    !.verifiedAtStart = code \in DOMAIN verified,
                    !.path = IF code \in DOMAIN authDb THEN "durable" ELSE ""]
        cached == FALSE
        auth == IF cached THEN auth_cache[code] ELSE authDb[code]
        error == CodeError(auth, amount, currency, now)
    IN  /\ vreq[v].pc = "idle"
        /\ \A w \in VerReqs : w < v => vreq[w].pc # "idle"
        /\ UNCHANGED <<now, consentDb, authDb, consent_cache, auth_cache, auth_queue,
                       nextCode, issued, areq, verified>>
        /\ lastAuth' = NoAuthCall
        /\ OnlyAuthVerify
        /\ IF ~cached /\ code \notin DOMAIN authDb
           THEN /\ lastVerify' = Reject(call, "authorization_not_found")
                /\ UNCHANGED vreq
           ELSE IF error # ""
           THEN /\ lastVerify' = Reject(call, error)
                /\ UNCHANGED vreq
           ELSE /\ vreq' = [vreq EXCEPT ![v] =
                              [pc |-> IF cached THEN "mem_consent" ELSE "db_consent",
                               call |-> call]]
                /\ lastVerify' = NoVerifyCall

\* verify up to its first await on the consent query: the lookup in the
\* in-memory table, or else the Authorization row, and the checks on it.
\* a verify that burns the code it rejects for a wrong amount or currency
VerifyStart_burn_on_mismatch(v, code, amount, currency) ==
    LET call == [NoVerifyCall EXCEPT !.authorization_code = code,
                    !.asked = Redeemed(code, amount, currency, now),
                    !.verifiedAtStart = code \in DOMAIN verified,
                    !.path = IF code \in DOMAIN auth_cache THEN "memory"
                             ELSE IF code \in DOMAIN authDb THEN "durable" ELSE ""]
        cached == code \in DOMAIN auth_cache
        auth == IF cached THEN auth_cache[code] ELSE authDb[code]
        error == CodeError(auth, amount, currency, now)
    IN  /\ vreq[v].pc = "idle"
        /\ \A w \in VerReqs : w < v => vreq[w].pc # "idle"
        /\ UNCHANGED <<now, consentDb, consent_cache, auth_queue,
                       nextCode, issued, areq, verified>>
        /\ lastAuth' = NoAuthCall
        /\ OnlyAuthVerify
        /\ IF ~cached /\ code \notin DOMAIN authDb
           THEN /\ lastVerify' = Reject(call, "authorization_not_found")
                /\ UNCHANGED <<vreq, auth_cache, authDb>>
           ELSE IF error # ""
           THEN /\ lastVerify' = Reject(call, error)
                /\ IF cached
                   THEN auth_cache' = [auth_cache EXCEPT ![code] = MarkUsed(@)]
                        /\ UNCHANGED authDb
                   ELSE authDb' = [authDb EXCEPT ![code] = MarkUsed(@)]
                        /\ UNCHANGED auth_cache
                /\ UNCHANGED vreq
           ELSE /\ vreq' = [vreq EXCEPT ![v] =
                              [pc |-> IF cached THEN "mem_consent" ELSE "db_consent",
                               call |-> call]]
                /\ lastVerify' = NoVerifyCall
                /\ UNCHANGED <<auth_cache, authDb>>

VerifyStart(v, code, amount, currency) ==
    LET call == [NoVerifyCall EXCEPT !.authorization_code = code,
                    !.asked = Redeemed(code, amount, currency, now),
                    !.verifiedAtStart = code \in DOMAIN verified,
                    !.path = IF code \in DOMAIN auth_cache THEN "memory"
                             ELSE IF code \in DOMAIN authDb THEN "durable" ELSE ""]
        cached == code \in DOMAIN auth_cache
        auth == IF cached THEN auth_cache[code] ELSE authDb[code]
        error == CodeError(auth, amount, currency, now)
    IN  /\ vreq[v].pc = "idle"
        /\ \A w \in VerReqs : w < v => vreq[w].pc # "idle"
        /\ UNCHANGED <<now, consentDb, authDb, consent_cache, auth_cache, auth_queue,
                       nextCode, issued, areq, verified>>
        /\ lastAuth' = NoAuthCall
        /\ OnlyAuthVerify
        /\ IF ~cached /\ code \notin DOMAIN authDb
           THEN /\ lastVerify' = Reject(call, "authorization_not_found")
                /\ UNCHANGED vreq
           ELSE IF error # ""
           THEN /\ lastVerify' = Reject(call, error)
                /\ UNCHANGED vreq
           ELSE /\ vreq' = [vreq EXCEPT ![v] =
                              [pc |-> IF cached THEN "mem_consent" ELSE "db_consent",
                               call |-> call]]
                /\ lastVerify' = NoVerifyCall

\* verify resumed on the in-memory path: the consent row, then the mark
VerifyMemResume(v) ==
    LET rq == vreq[v]
        code == rq.call.authorization_code
    IN  /\ rq.pc = "mem_consent"
        /\ UNCHANGED <<now, consentDb, authDb, consent_cache, auth_queue, nextCode, issued,
                       areq>>
        /\ lastAuth' = NoAuthCall
        /\ OnlyAuthVerify
        /\ vreq' = [vreq EXCEPT ![v] = IdleVerReq]
        /\ IF auth_cache[code].consent_id \notin DOMAIN consentDb
           THEN /\ lastVerify' = Reject(rq.call, "consent_not_found")
                /\ UNCHANGED <<auth_cache, verified>>
           ELSE /\ auth_cache' = [auth_cache EXCEPT ![code] = MarkUsed(@)]
                /\ lastVerify' = Accept(rq.call)
                /\ verified' = AfterAccept(rq.call)

\* verify resumed on the durable path: the consent row, then the mark and the flush
VerifyDbResume(v) ==
    LET rq == vreq[v]
        code == rq.call.authorization_code
    IN  /\ rq.pc = "db_consent"
        /\ UNCHANGED <<now, consentDb, consent_cache, auth_cache, auth_queue, nextCode,
                       issued, areq>>
        /\ lastAuth' = NoAuthCall
        /\ OnlyAuthVerify
        /\ vreq' = [vreq EXCEPT ![v] = IdleVerReq]
        /\ IF authDb[code].consent_id \notin DOMAIN consentDb
           THEN /\ lastVerify' = Reject(rq.call, "consent_not_found")
                /\ UNCHANGED <<authDb, verified>>
           ELSE /\ authDb' = [authDb EXCEPT ![code] = MarkUsed(@)]
                /\ lastVerify' = Accept(rq.call)
                /\ verified' = AfterAccept(rq.call)

----------------------------------------------------------------------------
(* flush_auth_queue: one turn of the background loop *)

Min(a, b) == IF a <= b THEN a ELSE b

\* the Authorization row built from a queued dict; is_used takes its default
AuthorizationRow(item) ==
    [consent_id |-> item.consent_id, amount |-> item.amount, currency |-> item.currency,
     expires_at |-> item.expires_at, is_used |-> FALSE]

\* a flush that takes the whole queue in one cycle
FlushAuthQueue_whole_queue ==
    LET n == Len(auth_queue)
        batch == SubSeq(auth_queue, 1, n)
    IN  /\ auth_queue # <<>>
        /\ auth_queue' = SubSeq(auth_queue, n + 1, Len(auth_queue))
        /\ authDb' = [code \in (DOMAIN authDb) \cup {batch[i].authorization_code : i \in 1..n} |->
                        IF code \in DOMAIN authDb THEN authDb[code]
                        ELSE AuthorizationRow(
                                 batch[CHOOSE i \in 1..n : batch[i].authorization_code = code])]
        /\ UNCHANGED <<now, consentDb, consent_cache, auth_cache, nextCode, issued, areq,
                       vreq, verified>>
        /\ lastAuth' = NoAuthCall /\ lastVerify' = NoVerifyCall
        /\ OnlyAuthVerify

FlushAuthQueue ==
    LET n == Min(Len(auth_queue), FLUSH_BATCH_SIZE)
        batch == SubSeq(auth_queue, 1, n)
    IN  /\ auth_queue # <<>>
        /\ auth_queue' = SubSeq(auth_queue, n + 1, Len(auth_queue))
        /\ authDb' = [code \in (DOMAIN authDb) \cup {batch[i].authorization_code : i \in 1..n} |->
                        IF code \in DOMAIN authDb THEN authDb[code]
                        ELSE AuthorizationRow(
                                 batch[CHOOSE i \in 1..n : batch[i].authorization_code = code])]
        /\ UNCHANGED <<now, consentDb, consent_cache, auth_cache, nextCode, issued, areq,
                       vreq, verified>>
        /\ lastAuth' = NoAuthCall /\ lastVerify' = NoVerifyCall
        /\ OnlyAuthVerify

\* ... when the session or its commit raises: the batch has been taken off the
\* queue, nothing is written, the error is printed and the loop goes on
FlushAuthQueueFails ==
    LET n == Min(Len(auth_queue), FLUSH_BATCH_SIZE)
    IN  /\ auth_queue # <<>>
        /\ auth_queue' = SubSeq(auth_queue, n + 1, Len(auth_queue))
        /\ UNCHANGED <<now, consentDb, authDb, consent_cache, auth_cache, nextCode, issued,
                       areq, vreq, verified>>
        /\ lastAuth' = NoAuthCall /\ lastVerify' = NoVerifyCall
        /\ OnlyAuthVerify

\* The service process stops and starts again: the module globals are empty
\* again, the calls in flight are lost, the stores keep their rows.
Restart ==
    /\ auth_cache # EmptyDict
    /\ auth_cache' = EmptyDict
    /\ consent_cache' = EmptyDict
    /\ auth_queue' = <<>>
    /\ areq' = [r \in AuthReqs |-> IdleAuthReq]
    /\ vreq' = [v \in VerReqs |-> IdleVerReq]
    /\ audit_last_hash' = GENESIS_HASH
    /\ audit_buffer' = <<>>
    /\ UNCHANGED <<now, consentDb, authDb, nextCode, issued, verified>>
    /\ UNCHANGED <<audit_store, audit_events, sha256, tenant_last, tampered>>
    /\ UNCHANGED idemVars
    /\ lastAuth' = NoAuthCall /\ lastVerify' = NoVerifyCall
    /\ lastIdem' = NoIdemCall /\ lastAudit' = NoAudit
    /\ NoGuardCall

----------------------------------------------------------------------------
(* IdempotencyMiddleware.dispatch, for a POST/PUT to an idempotent endpoint  *)
(* with a well-formed Idempotency-Key.  A Redis key set with EX is gone once *)
(* its lifetime has passed.                                                  *)

CacheKeys == {"key_a"}

\* what call_next can produce: a 2xx response, a non-2xx response (such as the
\* 429 of the rate limiter below), or an exception (500)
HandlerStatuses == {200, 429, 500}

\* a key set without EX: it never expires
Live_without_ex(store, key, t) == key \in DOMAIN store

\* a key set with EX is there until its lifetime has passed
Live(store, key, t) == key \in DOMAIN store /\ t < store[key].expires_at

\* _get_cached_response: the cached response, or None (also when Redis fails)
CachedResponseFound(key) == redisUp /\ Live(idem_store, key, now)

\* r is between its lock acquisition and its lock release
InHandler(r) == ireq[r].pc \in {"handler", "cache", "release"}

\* h is being processed and the lock it set is still there
HoldsLock(h, key) ==
    /\ InHandler(h) /\ ireq[h].call.cache_key = key
    /\ Live(lock_store, key, now) /\ lock_store[key].owner = h

\* dispatch returns outcome for the call: the first 2xx response returned for
\* a cache key is remembered
Returned(r, call, outcome) ==
    /\ ireq' = [ireq EXCEPT ![r] = IdleIdemReq]
    /\ lastIdem' = [call EXCEPT !.outcome = outcome]
    /\ firstResponse' =
          IF outcome.status_code = 200 /\ call.cache_key \notin DOMAIN firstResponse
          THEN Put(firstResponse, call.cache_key,
                   [status_code |-> outcome.status_code, body |-> outcome.body])
          ELSE firstResponse

\* dispatch, for a request that has a well-formed key, from the cache key up
\* to the lookup of a cached response
IdemStartFor(r, key, request) ==
    LET call == [NoIdemCall EXCEPT !.request = request, !.cache_key = key,
                    !.hadFirst = key \in DOMAIN firstResponse]
    IN  /\ ireq[r].pc = "idle"
        /\ \A w \in IdemReqs : w < r => ireq[w].pc # "idle"
        /\ IF CachedResponseFound(key)
           THEN Returned(r, call, [status_code |-> idem_store[key].status_code,
                                   body |-> idem_store[key].body,
                                   replayed |-> TRUE, error |-> ""])
           ELSE /\ ireq' = [ireq EXCEPT ![r] = [IdleIdemReq EXCEPT !.pc = "lock",
                                                                   !.call = call]]
                /\ lastIdem' = NoIdemCall
                /\ UNCHANGED firstResponse
        /\ UNCHANGED <<now, idem_store, lock_store, redisUp, handlerRuns, succeeded>>
        /\ OnlyIdem

\* ... for a request of which only the cache key matters
IdemStart(r, key) == IdemStartFor(r, key, NoRequest)

\* the lock with the NX condition dropped (plain SET)
LockGranted_without_nx(key) == TRUE

\* _acquire_lock: SET lock:{key} 1 NX EX 60; True when Redis raises
LockGranted(key) == ~redisUp \/ ~Live(lock_store, key, now)

IdemAcquireLock(r) ==
    LET rq == ireq[r]
        key == rq.call.cache_key
        call == [rq.call EXCEPT !.contended =
                    /\ \E h \in IdemReqs \ {r} : HoldsLock(h, key)
                    /\ ~Live(idem_store, key, now)]
    IN  /\ rq.pc = "lock"
        /\ IF LockGranted(key)
           THEN /\ ireq' = [ireq EXCEPT ![r] = [rq EXCEPT !.pc = "handler", !.call = call]]
                /\ lock_store' = IF redisUp
                                 THEN Put(lock_store, key,
                                          [expires_at |-> now + LOCK_TTL_SECONDS, owner |-> r])
                                 ELSE lock_store
                /\ lastIdem' = NoIdemCall
                /\ UNCHANGED firstResponse
           ELSE /\ Returned(r, call, [status_code |-> 409, body |-> 0, replayed |-> FALSE,
                                      error |-> "idempotency_conflict"])
                /\ UNCHANGED lock_store
        /\ UNCHANGED <<now, idem_store, redisUp, handlerRuns, succeeded>>
        /\ OnlyIdem

\* call_next with every response cached, whatever its status
IdemHandler_cache_all(r, status) ==
    LET key == ireq[r].call.cache_key
        ok == 200 <= status /\ status < 300
    IN  /\ ireq[r].pc = "handler"
        /\ handlerRuns < MaxRuns
        /\ handlerRuns' = handlerRuns + 1
        /\ succeeded' = IF ok
                        THEN Put(succeeded, key,
                                 IF key \in DOMAIN succeeded THEN succeeded[key] + 1 ELSE 1)
                        ELSE succeeded
        /\ ireq' = [ireq EXCEPT ![r] =
                      [@ EXCEPT !.call.invoked = TRUE,
                                !.response = [status_code |-> status, body |-> handlerRuns + 1,
                                              replayed |-> FALSE,
                                              error |-> IF ok THEN "" ELSE "error"],
                                !.pc = "cache"]]
        /\ lastIdem' = NoIdemCall
        /\ UNCHANGED <<now, idem_store, lock_store, redisUp, firstResponse>>
        /\ OnlyIdem

\* call_next: the handler runs and answers; every run produces its own body
\* (authorize issues a fresh authorization code)
IdemHandler(r, status) ==
    LET key == ireq[r].call.cache_key
        ok == 200 <= status /\ status < 300
    IN  /\ ireq[r].pc = "handler"
        /\ handlerRuns < MaxRuns
        /\ handlerRuns' = handlerRuns + 1
        /\ succeeded' = IF ok
                        THEN Put(succeeded, key,
                                 IF key \in DOMAIN succeeded THEN succeeded[key] + 1 ELSE 1)
                        ELSE succeeded
        /\ ireq' = [ireq EXCEPT ![r] =
                      [@ EXCEPT !.call.invoked = TRUE,
                                !.response = [status_code |-> status, body |-> handlerRuns + 1,
                                              replayed |-> FALSE,
                                              error |-> IF ok THEN "" ELSE "error"],
                                !.pc = IF ok THEN "cache" ELSE "release"]]
        /\ lastIdem' = NoIdemCall
        /\ UNCHANGED <<now, idem_store, lock_store, redisUp, firstResponse>>
        /\ OnlyIdem

\* _cache_response of a 2xx response: SETEX with the 24 h lifetime; a Redis
\* error is swallowed
IdemCacheResponse(r) ==
    LET rq == ireq[r]
    IN  /\ rq.pc = "cache"
        /\ idem_store' = IF redisUp
                         THEN Put(idem_store, rq.call.cache_key,
                                  [status_code |-> rq.response.status_code,
                                   body |-> rq.response.body,
                                   expires_at |-> now + TTL_HOURS * 3600,
                                   caller |-> Credentials(rq.call.request)])
                         ELSE idem_store
        /\ ireq' = [ireq EXCEPT ![r].pc = "release"]
        /\ lastIdem' = NoIdemCall
        /\ UNCHANGED <<now, lock_store, redisUp, handlerRuns, succeeded, firstResponse>>
        /\ OnlyIdem

\* finally: _release_lock deletes lock:{key}, whoever set it; then dispatch returns
IdemReleaseLock(r) ==
    LET rq == ireq[r]
    IN  /\ rq.pc = "release"
        /\ lock_store' = IF redisUp THEN Del(lock_store, rq.call.cache_key) ELSE lock_store
        /\ Returned(r, rq.call, rq.response)
        /\ UNCHANGED <<now, idem_store, redisUp, handlerRuns, succeeded>>
        /\ OnlyIdem

\* Redis becomes unreachable, and reachable again
RedisFail ==
    /\ redisUp
    /\ redisUp' = FALSE
    /\ lastIdem' = NoIdemCall
    /\ UNCHANGED <<now, idem_store, lock_store, ireq, handlerRuns, succeeded, firstResponse>>
    /\ OnlyIdem

RedisRecover ==
    /\ ~redisUp
    /\ redisUp' = TRUE
    /\ lastIdem' = NoIdemCall
    /\ UNCHANGED <<now, idem_store, lock_store, ireq, handlerRuns, succeeded, firstResponse>>
    /\ OnlyIdem

\* The clock moves on to a later instant
Tick(t) ==
    /\ t > now
    /\ now' = t
    /\ UNCHANGED authVars
    /\ UNCHANGED idemVars
    /\ lastAuth' = NoAuthCall /\ lastVerify' = NoVerifyCall /\ lastIdem' = NoIdemCall
    /\ NoAuditCall /\ NoGuardCall

----------------------------------------------------------------------------
(* IdempotencyMiddleware.dispatch from its first line: which requests it     *)
(* guards, and under which cache key                                         *)

IDEMPOTENT_ENDPOINTS == {<<"v1", "authorize">>, <<"v1", "consents">>, <<"v1", "transactions">>}

MIN_KEY_LENGTH == 16
API_KEY_PREFIX_LENGTH == 20

\* str.startswith, s[:n]
StartsWith(s, prefix) == Len(prefix) <= Len(s) /\ SubSeq(s, 1, Len(prefix)) = prefix

Take(s, n) == SubSeq(s, 1, Min(Len(s), n))

\* any(path.startswith(endpoint) for endpoint in IDEMPOTENT_ENDPOINTS)
RequiresIdempotency(path) == \E endpoint \in IDEMPOTENT_ENDPOINTS : StartsWith(path, endpoint)

validate_idempotency_key(key) == key # <<>> /\ Len(key) >= MIN_KEY_LENGTH

\* _make_cache_key: the digest of "{api_key}:{method}:{path}:{key}", where
\* api_key is the first 20 characters of the Authorization header.  The
\* digest is one-to-one on what it is computed from, which stands for it.
make_cache_key(request) ==
    <<Take(request.authorization, API_KEY_PREFIX_LENGTH), request.method, request.path,
      request.idempotency_key>>

\* API keys have the form aa_<env>_<developer_id>_<random>
Bearer(api_key) == <<"B", "e", "a", "r", "e", "r", " ">> \o api_key

LiveKey(rest) == <<"a", "a", "_", "l", "i", "v", "e", "_">> \o rest

KeyAcmeEu == LiveKey(<<"a", "c", "m", "e", "_", "e", "u", "_", "k", "1">>)
KeyAcmeUs == LiveKey(<<"a", "c", "m", "e", "_", "u", "s", "_", "k", "2">>)
KeyZeta == LiveKey(<<"z", "e", "t", "a", "_", "k", "3">>)

\* Idempotency-Key values of 16 and of 15 characters
GoodKey == [i \in 1..MIN_KEY_LENGTH |-> "k"]
ShortKey == [i \in 1..(MIN_KEY_LENGTH - 1) |-> "k"]

Request(method, path, authorization, x_api_key, idempotency_key) ==
    [method |-> method, path |-> path, authorization |-> authorization,
     x_api_key |-> x_api_key, idempotency_key |-> idempotency_key]

\* The requests: the same POST /v1/authorize with the same Idempotency-Key
\* from callers that send their key in X-API-Key and from callers that send
\* it as a bearer token (two whose keys part after the 20th character of the
\* header, one whose key parts before); the same request without a key and
\* with a short key; requests dispatch does not guard.
DispatchRequests ==
    { Request("POST", <<"v1", "authorize">>, <<>>, KeyAcmeEu, GoodKey),
      Request("POST", <<"v1", "authorize">>, <<>>, KeyZeta, GoodKey),
      Request("POST", <<"v1", "authorize">>, Bearer(KeyAcmeEu), <<>>, GoodKey),
      Request("POST", <<"v1", "authorize">>, Bearer(KeyAcmeUs), <<>>, GoodKey),
      Request("POST", <<"v1", "authorize">>, Bearer(KeyZeta), <<>>, GoodKey),
      Request("POST", <<"v1", "authorize">>, <<>>, KeyAcmeEu, <<>>),
      Request("POST", <<"v1", "authorize">>, <<>>, KeyAcmeEu, ShortKey),
      Request("POST", <<"v1", "verify">>, <<>>, KeyAcmeEu, GoodKey),
      Request("DELETE", <<"v1", "consents", "cons_1">>, <<>>, KeyAcmeEu, GoodKey) }

\* dispatch up to its first await
Dispatch(r, request) ==
    LET call == [NoIdemCall EXCEPT !.request = request, !.cache_key = <<>>]
    IN  IF \/ request.method \notin {"POST", "PUT"}
           \/ ~RequiresIdempotency(request.path)
           \/ request.idempotency_key = <<>>
        THEN \* return await call_next(request)
             /\ ireq[r].pc = "idle"
             /\ \A w \in IdemReqs : w < r => ireq[w].pc # "idle"
             /\ ireq' = [ireq EXCEPT ![r] = [IdleIdemReq EXCEPT !.pc = "call_next",
                                                                 !.call = call]]
             /\ lastIdem' = NoIdemCall
             /\ UNCHANGED <<now, idem_store, lock_store, redisUp, handlerRuns, succeeded,
                            firstResponse>>
             /\ OnlyIdem
        ELSE IF ~validate_idempotency_key(request.idempotency_key)
        THEN /\ ireq[r].pc = "idle"
             /\ \A w \in IdemReqs : w < r => ireq[w].pc # "idle"
             /\ lastIdem' = [call EXCEPT !.outcome =
                               [status_code |-> 400, body |-> 0, replayed |-> FALSE,
                                error |-> "invalid_idempotency_key"]]
             /\ UNCHANGED <<now, idem_store, lock_store, redisUp, ireq, handlerRuns,
                            succeeded, firstResponse>>
             /\ OnlyIdem
        ELSE IdemStartFor(r, make_cache_key(request), request)

\* call_next for a request dispatch passes through: the handler runs and its
\* response is returned as it is
CallNext(r, status) ==
    LET rq == ireq[r]
    IN  /\ rq.pc = "call_next"
        /\ handlerRuns < MaxRuns
        /\ handlerRuns' = handlerRuns + 1
        /\ ireq' = [ireq EXCEPT ![r] = IdleIdemReq]
        /\ lastIdem' = [rq.call EXCEPT !.invoked = TRUE,
                           !.outcome = [status_code |-> status, body |-> handlerRuns + 1,
                                        replayed |-> FALSE,
                                        error |-> IF 200 <= status /\ status < 300
                                                  THEN "" ELSE "error"]]
        /\ UNCHANGED <<now, idem_store, lock_store, redisUp, succeeded, firstResponse>>
        /\ OnlyIdem

----------------------------------------------------------------------------
(* ComplianceAuditService.  uuid4 gives every entry its own event_id, and   *)
(* the clock, read in microseconds, a later timestamp than the entry before *)
(* it: both are the number of the entry.  Of an entry the fields that the   *)
(* chain, the store and verify_integrity use are kept (details stands for   *)
(* what the caller reports); the signature is written and never checked.    *)

Tenants == {"dev_1", "dev_2"}

Details == {"d0"}
ForgedDetails == "forged"

\* AuditEntry.compute_hash: the dict that is serialised and hashed
HashedData(entry) ==
    [event_id |-> entry.event_id, timestamp |-> entry.timestamp, details |-> entry.details,
     previous_hash |-> entry.previous_hash]

\* sha256(...).hexdigest(): equal inputs have equal digests and different
\* inputs different ones
Digest(table, data) ==
    IF \E i \in 1..Len(table) : table[i] = data
    THEN CHOOSE i \in 1..Len(table) : table[i] = data
    ELSE Len(table) + 1

Hashed(table, data) ==
    IF \E i \in 1..Len(table) : table[i] = data THEN table ELSE Append(table, data)

\* f"audit:{entry.developer_id or 'global'}:..."
StoreKey(developer_id) == IF developer_id = "" THEN "global" ELSE developer_id

\* sorted(entries, key=timestamp), a stable sort: the place of each entry is
\* the number of entries that go before it, plus one
Place(entries, j) ==
    1 + Cardinality({i \in 1..Len(entries) :
                        \/ entries[i].timestamp < entries[j].timestamp
                        \/ entries[i].timestamp = entries[j].timestamp /\ i < j})

SortByTimestamp(entries) ==
    [p \in 1..Len(entries) |->
        IF Place(entries, p) = p THEN entries[p]
        ELSE entries[CHOOSE j \in 1..Len(entries) : Place(entries, j) = p]]

\* _flush_buffer: every buffered entry is written under its developer_id
\* (zadd keeps a timeline in the order of the scores, the timestamps); a
\* Redis error is swallowed; the buffer is cleared either way
FlushBuffer(store, buffer) ==
    LET keys == {StoreKey(buffer[i].developer_id) : i \in 1..Len(buffer)}
        of(k) == SelectSeq(buffer, LAMBDA entry : StoreKey(entry.developer_id) = k)
    IN  IF ~redisUp THEN store
        ELSE [k \in (DOMAIN store) \cup keys |->
                SortByTimestamp((IF k \in DOMAIN store THEN store[k] ELSE <<>>) \o of(k))]

\* ComplianceAuditService.log
Log(developer_id, details) ==
    LET created == [NoEntry EXCEPT !.event_id = audit_events + 1,
                       !.timestamp = audit_events + 1,
                       !.developer_id = developer_id, !.details = details,
                       !.previous_hash = audit_last_hash]
        entry == [created EXCEPT !.record_hash = Digest(sha256, HashedData(created))]
        buffer == Append(audit_buffer, entry)
    IN  /\ audit_events' = audit_events + 1
        /\ sha256' = Hashed(sha256, HashedData(created))
        /\ audit_last_hash' = entry.record_hash
        /\ IF Len(buffer) >= BUFFER_SIZE
           THEN /\ audit_store' = FlushBuffer(audit_store, buffer)
                /\ audit_buffer' = <<>>
           ELSE /\ audit_buffer' = buffer
                /\ UNCHANGED audit_store
        /\ tenant_last' = Put(tenant_last, developer_id, entry.record_hash)
        /\ lastAudit' = [NoAudit EXCEPT !.op = "log", !.developer_id = developer_id,
                            !.entry = entry,
                            !.expected = IF developer_id \in DOMAIN tenant_last
                                         THEN tenant_last[developer_id] ELSE GENESIS_HASH]
        /\ UNCHANGED <<now, tampered>>
        /\ UNCHANGED authVars /\ UNCHANGED idemVars
        /\ lastAuth' = NoAuthCall /\ lastVerify' = NoVerifyCall /\ lastIdem' = NoIdemCall
        /\ NoGuardCall

\* ComplianceAuditService.query(developer_id, limit): the first entries of
\* the timeline of developer_id; [] when Redis fails
query(developer_id, limit) ==
    IF redisUp /\ developer_id \in DOMAIN audit_store
    THEN Take(audit_store[developer_id], limit)
    ELSE <<>>

\* verify_integrity: the entries whose previous_hash is not the record_hash
\* of the entry before them (of the genesis hash, for the first)
ChainErrors(entries) ==
    {entries[i].event_id : i \in {j \in 1..Len(entries) :
        entries[j].previous_hash #
            (IF j = 1 THEN GENESIS_HASH ELSE entries[j - 1].record_hash)}}

VerifyIntegrity(developer_id) ==
    \E entries \in {SortByTimestamp(query(developer_id, QUERY_LIMIT))} :
      \E errors \in {ChainErrors(entries)} :
        /\ lastAudit' = [NoAudit EXCEPT !.op = "verify_integrity",
                            !.developer_id = developer_id,
                            !.valid = (errors = {}), !.entries_checked = Len(entries),
                            !.errors = errors]
        /\ UNCHANGED <<now, auditVars>>
        /\ UNCHANGED authVars /\ UNCHANGED idemVars
        /\ lastAuth' = NoAuthCall /\ lastVerify' = NoVerifyCall /\ lastIdem' = NoIdemCall
        /\ NoGuardCall

\* Someone with access to the store rewrites the details of one stored entry
Tamper(developer_id, event_id) ==
    /\ tampered = NoEvent
    /\ developer_id \in DOMAIN audit_store
    /\ \E i \in 1..Len(audit_store[developer_id]) :
          /\ audit_store[developer_id][i].event_id = event_id
          /\ audit_store' = [audit_store EXCEPT ![developer_id][i].details = ForgedDetails]
    /\ tampered' = event_id
    /\ lastAudit' = NoAudit
    /\ UNCHANGED <<now, audit_last_hash, audit_buffer, audit_events, sha256, tenant_last>>
    /\ UNCHANGED authVars /\ UNCHANGED idemVars
    /\ lastAuth' = NoAuthCall /\ lastVerify' = NoVerifyCall /\ lastIdem' = NoIdemCall
    /\ NoGuardCall

----------------------------------------------------------------------------
(* VelocityRules and VelocityService.  Amounts are in cents, as everywhere; *)
(* risk scores are in half points, so that the half weight of a WARN is a   *)
(* whole number.  The data of a user is under the Redis keys                *)
(* velocity:user:{user_id}:{field}; a key holds a string (SETEX of a JSON   *)
(* value, or the counter of INCR) or a set (SADD), and is gone once its     *)
(* lifetime has passed.  A location is its country, "" for None.            *)

Users == {"user_1"}

AMOUNT_SPIKE_MULTIPLIER == 3
MAX_TRANSACTIONS_PER_MINUTE == 10
NEW_MERCHANT_HIGH_VALUE_THRESHOLD == 50000
FIRST_TRANSACTION_HIGH_VALUE == 100000
SUSPICIOUS_HOURS == 0..4
IMPOSSIBLE_TRAVEL_SECONDS == 7200

DECLINE_SCORE == 50
VERIFY_SCORE == 25
MAX_RISK_SCORE == 100

DAY_TTL == 86400
TXN_COUNT_TTL == 60
MERCHANTS_TTL == 86400 * 30

\* None of an optional amount
NoAmount == -1

RuleNames == <<"amount_spike", "frequency", "new_merchant", "geographic", "time_anomaly">>

WEIGHTS ==
    [amount_spike |-> 30, frequency |-> 25, new_merchant |-> 20, geographic |-> 15,
     time_anomaly |-> 10]

VelocityKey(user_id, field) == <<user_id, field>>

\* GET of a key: its value while the key is there; a set is no string, for
\* which Redis raises WRONGTYPE; CacheService.get and the data access methods
\* turn every exception into None
Readable(store, key, t) == redisUp /\ Live(store, key, t) /\ store[key].kind = "string"

get_user_avg_transaction(store, t, user_id) ==
    LET key == VelocityKey(user_id, "avg_amount")
    IN  IF Readable(store, key, t) THEN store[key].value ELSE NoAmount

get_recent_transaction_count(store, t, user_id) ==
    LET key == VelocityKey(user_id, "txn_count:1m")
    IN  IF Readable(store, key, t) THEN store[key].value ELSE 0

is_first_merchant_transaction(store, t, user_id, merchant_id) ==
    LET key == VelocityKey(user_id, "merchants")
        merchants == IF Readable(store, key, t) THEN store[key].value ELSE {}
    IN  ~(merchants # {} /\ merchant_id \in merchants)

get_last_transaction_location(store, t, user_id) ==
    LET key == VelocityKey(user_id, "last_location")
    IN  IF Readable(store, key, t) THEN store[key].value ELSE ""

get_time_since_last_transaction(store, t, user_id) ==
    LET key == VelocityKey(user_id, "last_txn_time")
    IN  IF Readable(store, key, t) THEN t - store[key].value ELSE NoTime

get_user_typical_hours(store, t, user_id) ==
    LET key == VelocityKey(user_id, "typical_hours")
    IN  IF Readable(store, key, t) THEN store[key].value ELSE {}

\* Rule 1; spike_ratio >= m is amount >= m * historical_avg
check_amount_spike(amount, historical_avg) ==
    IF historical_avg = 0 \/ historical_avg = NoAmount
    THEN IF amount > FIRST_TRANSACTION_HIGH_VALUE THEN "warn" ELSE "pass"
    ELSE IF amount >= AMOUNT_SPIKE_MULTIPLIER * 2 * historical_avg THEN "block"
    ELSE IF amount >= AMOUNT_SPIKE_MULTIPLIER * historical_avg THEN "warn"
    ELSE "pass"

\* Rule 2; count >= MAX * 0.7 is 10 * count >= 7 * MAX
check_frequency(recent_txn_count) ==
    IF recent_txn_count >= MAX_TRANSACTIONS_PER_MINUTE THEN "block"
    ELSE IF 10 * recent_txn_count >= 7 * MAX_TRANSACTIONS_PER_MINUTE THEN "warn"
    ELSE "pass"

\* Rule 3
check_new_merchant_high_value(is_first_time, amount) ==
    IF ~is_first_time THEN "pass"
    ELSE IF amount >= NEW_MERCHANT_HIGH_VALUE_THRESHOLD * 2 THEN "block"
    ELSE IF amount >= NEW_MERCHANT_HIGH_VALUE_THRESHOLD THEN "warn"
    ELSE "pass"

\* Rule 4, called without an ip_address; a timedelta of zero is falsy
check_geographic_anomaly(store, t, user_id, current_location) ==
    LET last_location == get_last_transaction_location(store, t, user_id)
        time_since_last == get_time_since_last_transaction(store, t, user_id)
    IN  IF current_location = "" THEN "pass"
        ELSE IF last_location = "" THEN "pass"
        ELSE IF current_location # last_location
        THEN IF /\ time_since_last # NoTime /\ time_since_last # 0
                /\ time_since_last < IMPOSSIBLE_TRAVEL_SECONDS
             THEN "block" ELSE "warn"
        ELSE "pass"

\* Rule 5, called without a transaction_time: the hour of now (UTC)
check_time_anomaly(store, t, user_id) ==
    LET hour == (t \div 3600) % 24
        typical_hours == get_user_typical_hours(store, t, user_id)
    IN  IF hour \in SUSPICIOUS_HOURS
        THEN IF typical_hours # {} /\ hour \in typical_hours THEN "pass" ELSE "warn"
        ELSE "pass"

\* the full weight with WARN counted like BLOCK
RuleScore_warn_full(rule_name, result) ==
    IF result \in {"block", "warn"} THEN 2 * WEIGHTS[rule_name] ELSE 0

\* what one rule adds to the risk score, in half points
RuleScore(rule_name, result) ==
    IF result = "block" THEN 2 * WEIGHTS[rule_name]
    ELSE IF result = "warn" THEN WEIGHTS[rule_name]
    ELSE 0

\* the loop over the results: the score after the first n of them
RECURSIVE RiskScore(_, _)
RiskScore(results, n) ==
    IF n = 0 THEN 0 ELSE RiskScore(results, n - 1) + RuleScore(RuleNames[n], results[n])

\* the first rule that gave BLOCK, or None
BlockingRule(results) ==
    IF \E i \in 1..Len(results) : results[i] = "block"
    THEN RuleNames[CHOOSE i \in 1..Len(results) :
                      /\ results[i] = "block"
                      /\ \A j \in 1..(i - 1) : results[j] # "block"]
    ELSE ""

\* check_velocity from "Calculate risk score" on
Aggregate(results) ==
    LET risk_score == RiskScore(results, Len(results))
    IN  [allowed |-> ~(risk_score >= 2 * DECLINE_SCORE),
         rule_triggered |-> BlockingRule(results),
         risk_score |-> Min(2 * MAX_RISK_SCORE, risk_score),
         recommendation |-> IF risk_score >= 2 * DECLINE_SCORE THEN "decline"
                            ELSE IF risk_score >= 2 * VERIFY_SCORE THEN "verify"
                            ELSE "allow",
         results |-> results]

\* VelocityService.check_velocity(user_id, amount, merchant_id, location) at time t
check_velocity(store, t, user_id, amount, merchant_id, location) ==
    Aggregate(<<check_amount_spike(amount, get_user_avg_transaction(store, t, user_id)),
                check_frequency(get_recent_transaction_count(store, t, user_id)),
                check_new_merchant_high_value(
                    is_first_merchant_transaction(store, t, user_id, merchant_id), amount),
                check_geographic_anomaly(store, t, user_id, location),
                check_time_anomaly(store, t, user_id)>>)

\* a call of the velocity service leaves the rest of the service alone
OnlyVelocity ==
    /\ UNCHANGED <<now, authVars, idemVars>>
    /\ lastAuth' = NoAuthCall /\ lastVerify' = NoVerifyCall /\ lastIdem' = NoIdemCall
    /\ NoAuditCall /\ NoRateCall

\* the call as a transaction is evaluated
VelocityCall(user_id, amount, merchant_id, location) ==
    [op |-> "check_velocity", user_id |-> user_id, amount |-> amount,
     merchant_id |-> merchant_id, location |-> location, at |-> now,
     result |-> check_velocity(velocity_store, now, user_id, amount, merchant_id, location)]

\* a check that counts the transaction it evaluates
CheckVelocity_counting(user_id, amount, merchant_id, location) ==
    LET key == VelocityKey(user_id, "txn_count:1m")
    IN  /\ lastVelocity' = VelocityCall(user_id, amount, merchant_id, location)
        /\ velocity_store' =
              Put(velocity_store, key,
                  [kind |-> "string",
                   value |-> get_recent_transaction_count(velocity_store, now, user_id) + 1,
                   expires_at |-> now + TXN_COUNT_TTL])
        /\ UNCHANGED txn_instants
        /\ OnlyVelocity

\* check_velocity: five rules that read, and the aggregation
CheckVelocity(user_id, amount, merchant_id, location) ==
    /\ lastVelocity' = VelocityCall(user_id, amount, merchant_id, location)
    /\ UNCHANGED <<velocity_store, txn_instants>>
    /\ OnlyVelocity

\* The record/set operations, called once a transaction has completed; each
\* swallows a Redis error
Recorded(key, kind, value, ttl) ==
    /\ velocity_store' =
          IF redisUp
          THEN Put(velocity_store, key,
                   [kind |-> kind, value |-> value, expires_at |-> now + ttl])
          ELSE velocity_store
    /\ UNCHANGED txn_instants
    /\ lastVelocity' = NoVelocity
    /\ OnlyVelocity

set_user_avg_transaction(user_id, avg) ==
    Recorded(VelocityKey(user_id, "avg_amount"), "string", avg, DAY_TTL)

\* INCR, then EXPIRE 60
increment_transaction_count(user_id) ==
    LET key == VelocityKey(user_id, "txn_count:1m")
        count == (IF Live(velocity_store, key, now) THEN velocity_store[key].value ELSE 0) + 1
        counted == IF user_id \in DOMAIN txn_instants
                   THEN SelectSeq(txn_instants[user_id], LAMBDA t : now - t <= TXN_COUNT_TTL)
                   ELSE <<>>
    IN  /\ velocity_store' =
              IF redisUp
              THEN Put(velocity_store, key,
                       [kind |-> "string", value |-> count,
                        expires_at |-> now + TXN_COUNT_TTL])
              ELSE velocity_store
        /\ txn_instants' =
              IF redisUp THEN Put(txn_instants, user_id, Append(counted, now))
              ELSE txn_instants
        /\ lastVelocity' = NoVelocity
        /\ OnlyVelocity

\* SADD, then EXPIRE 30 days
record_merchant_transaction(user_id, merchant_id) ==
    LET key == VelocityKey(user_id, "merchants")
    IN  Recorded(key, "set",
                 (IF Live(velocity_store, key, now) THEN velocity_store[key].value ELSE {})
                    \cup {merchant_id},
                 MERCHANTS_TTL)

set_transaction_location(user_id, location) ==
    Recorded(VelocityKey(user_id, "last_location"), "string", location, DAY_TTL)

record_transaction_time(user_id) ==
    Recorded(VelocityKey(user_id, "last_txn_time"), "string", now, DAY_TTL)

----------------------------------------------------------------------------
(* RateLimitMiddleware.dispatch over CacheService.check_rate_limit           *)

RATE_LIMIT_REQUESTS_PER_SECOND == 100
REQUESTS_PER_MINUTE == 100
API_KEY_WINDOW_SECONDS == 1
IP_WINDOW_SECONDS == 60
RATE_API_KEY_PREFIX_LENGTH == 20
RATE_KEY_PREFIX_LENGTH == 16
RATE_KEY_TTL_WINDOWS == 2
TOO_MANY_REQUESTS == 429

\* "/docs", "/redoc", "/openapi.json", "/health", "/", "/metrics"
EXEMPT_PATHS ==
    {<<"docs">>, <<"redoc">>, <<"openapi.json">>, <<"health">>, <<>>, <<"metrics">>}

RateRequest(path, authorization, x_api_key, client_host) ==
    [path |-> path, authorization |-> authorization, x_api_key |-> x_api_key,
     client_host |-> client_host]

\* _extract_api_key: the bearer token if there is one, else X-API-Key
extract_api_key(request) ==
    IF StartsWith(request.authorization, Bearer(<<>>))
    THEN SubSeq(request.authorization, Len(Bearer(<<>>)) + 1, Len(request.authorization))
    ELSE request.x_api_key

\* dispatch, "Determine rate limit based on auth": the identity a request is
\* limited under, with its limit and its window
RateIdentity(request) ==
    LET api_key == extract_api_key(request)
    IN  IF api_key # <<>> /\ StartsWith(api_key, <<"a", "a", "_">>)
        THEN [key |-> <<"a", "p", "i", "k", "e", "y", ":">>
                         \o Take(api_key, RATE_API_KEY_PREFIX_LENGTH),
              max_requests |-> RATE_LIMIT_REQUESTS_PER_SECOND,
              window_seconds |-> API_KEY_WINDOW_SECONDS]
        ELSE [key |-> <<"i", "p", ":">> \o request.client_host,
              max_requests |-> REQUESTS_PER_MINUTE,
              window_seconds |-> IP_WINDOW_SECONDS]

\* check_rate_limit, the key of the counter: ratelimit:{api_key[:16]}:{window}
\* with window = now // window_seconds
RateWindow(t, window_seconds) == t \div window_seconds

RateLimitKey(api_key, window) == <<Take(api_key, RATE_KEY_PREFIX_LENGTH), window>>

\* the value INCR returns for a key: one more than the live counter, one if
\* the key does not exist or has expired
Incremented(key) == (IF Live(rate_counters, key, now) THEN rate_counters[key].value ELSE 0) + 1

\* A step of the rate limiter is no step of the services behind it.
OnlyRate ==
    /\ UNCHANGED <<now, authVars, idemVars, velocity_store, txn_instants>>
    /\ lastAuth' = NoAuthCall /\ lastVerify' = NoVerifyCall /\ lastIdem' = NoIdemCall
    /\ lastVelocity' = NoVelocity
    /\ NoAuditCall

\* dispatch up to the await of the Redis pipeline: an exempt path goes to the
\* handler; for any other request the identity is chosen and check_rate_limit
\* reads the clock and names the counter of the window the clock is in.
RateDispatch(r, request) ==
    LET id == RateIdentity(request)
        window == RateWindow(now, id.window_seconds)
    IN  /\ rreq[r].pc = "idle"
        /\ \A w \in RateReqs : w < r => rreq[w].pc # "idle"
        /\ rateCalls < MaxRateCalls
        /\ rateCalls' = rateCalls + 1
        /\ rreq' = [rreq EXCEPT ![r] =
              IF request.path \in EXEMPT_PATHS
              THEN [IdleRateReq EXCEPT !.pc = "call_next"]
              ELSE [pc |-> "redis", key |-> RateLimitKey(id.key, window),
                    limit |-> id.max_requests, window_seconds |-> id.window_seconds,
                    call |-> [NoRate EXCEPT !.identity = id.key, !.window = window]]]
        /\ lastRate' = NoRate
        /\ UNCHANGED <<rate_counters, rate_limit_store, reached>>
        /\ OnlyRate

\* The 429 response of dispatch
RateLimited(call) ==
    [call EXCEPT !.status_code = TOO_MANY_REQUESTS, !.error = "rate_limit_exceeded",
                 !.invoked = FALSE]

\* check_rate_limit from pipe.execute() on, and what dispatch does with its
\* answer.  The pipeline runs INCR and EXPIRE together; the request is limited
\* if the counter has passed the limit.  If Redis raises, the check answers
\* (True, limit, 0).
RateCheck_fail_closed(r) ==
    LET rq == rreq[r]
        current == Incremented(rq.key)
    IN  /\ rq.pc = "redis"
        /\ IF redisUp
           THEN /\ rate_counters' = Put(rate_counters, rq.key,
                      [value |-> current,
                       expires_at |-> now + rq.window_seconds * RATE_KEY_TTL_WINDOWS])
                /\ IF current > rq.limit
                   THEN /\ lastRate' = RateLimited([rq.call EXCEPT !.current = current])
                        /\ rreq' = [rreq EXCEPT ![r] = IdleRateReq]
                   ELSE /\ lastRate' = NoRate
                        /\ rreq' = [rreq EXCEPT ![r].pc = "call_next",
                                                ![r].call.current = current]
           ELSE /\ lastRate' = RateLimited([rq.call EXCEPT !.backendFailed = TRUE])
                /\ rreq' = [rreq EXCEPT ![r] = IdleRateReq]
                /\ UNCHANGED rate_counters
        /\ UNCHANGED <<rateCalls, rate_limit_store, reached>>
        /\ OnlyRate

RateCheck(r) ==
    LET rq == rreq[r]
        current == Incremented(rq.key)
    IN  /\ rq.pc = "redis"
        /\ IF redisUp
           THEN /\ rate_counters' = Put(rate_counters, rq.key,
                      [value |-> current,
                       expires_at |-> now + rq.window_seconds * RATE_KEY_TTL_WINDOWS])
                /\ IF current > rq.limit
                   THEN /\ lastRate' = RateLimited([rq.call EXCEPT !.current = current])
                        /\ rreq' = [rreq EXCEPT ![r] = IdleRateReq]
                   ELSE /\ lastRate' = NoRate
                        /\ rreq' = [rreq EXCEPT ![r].pc = "call_next",
                                                ![r].call.current = current]
           ELSE /\ lastRate' = NoRate
                /\ rreq' = [rreq EXCEPT ![r].pc = "call_next",
                                        ![r].call.backendFailed = TRUE]
                /\ UNCHANGED rate_counters
        /\ UNCHANGED <<rateCalls, rate_limit_store, reached>>
        /\ OnlyRate

\* response = await call_next(request): the request reaches the handler
RateCallNext(r) ==
    LET rq == rreq[r]
        slot == <<rq.call.identity, rq.call.window>>
    IN  /\ rq.pc = "call_next"
        /\ reached' = IF rq.call.identity = <<>>
                      THEN reached
                      ELSE Put(reached, slot,
                               (IF slot \in DOMAIN reached THEN reached[slot] ELSE 0) + 1)
        /\ lastRate' = [rq.call EXCEPT !.status_code = 200, !.invoked = TRUE]
        /\ rreq' = [rreq EXCEPT ![r] = IdleRateReq]
        /\ UNCHANGED <<rate_counters, rateCalls, rate_limit_store>>
        /\ OnlyRate

\* RateLimitStore.is_rate_limited, "Clean old requests": the instants
\* recorded under a key that are still inside the window
RecentRequests(store, key, window_seconds, t) ==
    SelectSeq(IF key \in DOMAIN store THEN store[key] ELSE <<>>,
              LAMBDA ts : ts > t - window_seconds)

\* dispatch when _check_redis_rate_limit answers None (the cache service
\* could not be had): the in-memory store decides, in one step, with
\* max_requests * window_seconds as its limit; a request let through is
\* recorded with the instant at which it came.
RateDispatchFallback(r, request) ==
    LET id == RateIdentity(request)
        recent == RecentRequests(rate_limit_store, id.key, id.window_seconds, now)
        call == [NoRate EXCEPT !.identity = id.key, !.window = now, !.current = Len(recent)]
    IN  /\ rreq[r].pc = "idle"
        /\ \A w \in RateReqs : w < r => rreq[w].pc # "idle"
        /\ rateCalls < MaxRateCalls
        /\ rateCalls' = rateCalls + 1
        /\ UNCHANGED <<rate_counters, reached>>
        /\ OnlyRate
        /\ IF request.path \in EXEMPT_PATHS
           THEN /\ rreq' = [rreq EXCEPT ![r] = [IdleRateReq EXCEPT !.pc = "call_next"]]
                /\ lastRate' = NoRate
                /\ UNCHANGED rate_limit_store
           ELSE IF Len(recent) >= id.max_requests * id.window_seconds
           THEN /\ rate_limit_store' = Put(rate_limit_store, id.key, recent)
                /\ lastRate' = RateLimited(call)
                /\ UNCHANGED rreq
           ELSE /\ rate_limit_store' = Put(rate_limit_store, id.key, Append(recent, now))
                /\ rreq' = [rreq EXCEPT ![r] =
                              [pc |-> "call_next", key |-> <<>>,
                               limit |-> id.max_requests * id.window_seconds,
                               window_seconds |-> id.window_seconds, call |-> call]]
                /\ lastRate' = NoRate

----------------------------------------------------------------------------
(* Specifications *)

NextAuthorize ==
    \/ \E r \in AuthReqs, call \in AuthorizeCalls : AuthorizeStart(r, call[1], call[2])
    \/ \E r \in AuthReqs : AuthorizeResume(r)
    \/ \E c \in Consents : RevokeConsent(c)
    \/ \E t \in TimePoints : Tick(t)

SpecAuthorize == Init /\ [][NextAuthorize]_vars

\* The requests of one life of the service process: the agent is granted
\* codes, one authorize at a time, and merchants present the codes issued so
\* far or an unknown one.  Every code of this life is in the in-memory table,
\* which verify consults first.
NextProcess ==
    \/ \E call \in PaidCalls : nextCode <= MaxPaidCodes /\ AuthorizeStart(1, call[1], call[2])
    \/ AuthorizeResume(1)
    \/ \E v \in VerReqs, code \in 1..nextCode, payment \in Payments :
          VerifyStart(v, code, payment[1], payment[2])
    \/ \E v \in VerReqs : VerifyMemResume(v)
    \/ \E t \in TimePoints : Tick(t)

SpecProcess == Init /\ [][NextProcess]_vars

\* ... with the background flusher, and with the process restarted, which
\* brings the durable path into play
NextRestart ==
    \/ NextProcess
    \/ FlushAuthQueue
    \/ \E v \in VerReqs : VerifyDbResume(v)
    \/ Restart

SpecRestart == Init /\ [][NextRestart]_vars

\* The service under a load the flusher does not keep up with: one record
\* short of AUTH_QUEUE_MAXLEN are waiting on the queue, those of the codes
\* -Backlog .. -1 issued for the same transaction of cons_1 at time 0
Backlog == AUTH_QUEUE_MAXLEN - 1

BacklogRequest ==
    [IdleAuthReq EXCEPT !.amount = 2, !.currency = "USD", !.call.token = Token("cons_1")]

InitQueued ==
    /\ auth_cache = [code \in (-Backlog)..(-1) |-> AuthCacheEntry(BacklogRequest, 0)]
    /\ auth_queue = [i \in 1..Backlog |-> AuthQueueItem(i - Backlog - 1, BacklogRequest, 0)]
    /\ issued = [code \in (-Backlog)..(-1) |->
                   [consent_id |-> "cons_1", amount |-> 2, currency |-> "USD",
                    expires_at |-> AUTH_CODE_EXPIRY_SECONDS]]

NextQueue ==
    \/ \E call \in PaidCalls : AuthorizeStart(1, call[1], call[2])
    \/ AuthorizeResume(1)
    \/ \E c \in Consents : RevokeConsent(c)
    \/ \E t \in TimePoints : Tick(t)

InitBacklog == InitApp /\ InitQueued /\ InitAudit

SpecQueue == InitBacklog /\ [][NextQueue]_vars

\* One life of the service process with the background flusher, whose write
\* to the durable store succeeds or fails; the merchants come one at a time
NextFlush ==
    \/ \E call \in PaidCalls : nextCode <= MaxPaidCodes /\ AuthorizeStart(1, call[1], call[2])
    \/ AuthorizeResume(1)
    \/ \E code \in 1..nextCode, payment \in Payments :
          VerifyStart(1, code, payment[1], payment[2])
    \/ VerifyMemResume(1)
    \/ FlushAuthQueue
    \/ FlushAuthQueueFails
    \/ \E t \in TimePoints : Tick(t)

SpecFlush == Init /\ [][NextFlush]_vars

\* authorize for a shopper whose transactions are recorded by the velocity
\* service: a small purchase and one of 130.00 USD, while the transaction
\* counter of the last minute and the stored average (20.00 USD) change
ShopTxs == {Tx(100, "USD", "m1", ""), Tx(13000, "USD", "m1", "")}

InitShop == InitCore({"cons_3"}) /\ InitVelocity /\ InitRate /\ InitCodes /\ InitAudit

NextShop ==
    \/ \E tx \in ShopTxs : AuthorizeStart(1, Token("cons_3"), tx)
    \/ AuthorizeResume(1)
    \/ \E user_id \in Users :
          /\ get_recent_transaction_count(velocity_store, now, user_id)
                < MAX_TRANSACTIONS_PER_MINUTE
          /\ increment_transaction_count(user_id)
    \/ \E user_id \in Users : set_user_avg_transaction(user_id, 2000)

SpecShop == InitShop /\ [][NextShop]_vars

\* The consent cache full: CONSENT_CACHE_MAX other consents were looked up by
\* authorize one second before the clock of the model starts, and are cached.
OtherConsents == {"cons_0" \o ToString(i) : i \in 1..CONSENT_CACHE_MAX}

InitCached ==
    /\ now = 0
    /\ consentDb = [c \in Consents |-> [is_active |-> TRUE, revoked |-> FALSE]]
    /\ authDb = EmptyDict
    /\ consent_cache = [c \in OtherConsents |->
                          [data |-> [is_active |-> TRUE, revoked |-> FALSE,
                                     expires_at |-> ConsentExpiresAt("cons_1")],
                           cached_at |-> -1]]
    /\ nextCode = 1
    /\ areq = [r \in AuthReqs |-> IdleAuthReq]
    /\ lastAuth = NoAuthCall
    /\ vreq = [v \in VerReqs |-> IdleVerReq]
    /\ verified = EmptyDict
    /\ lastVerify = NoVerifyCall
    /\ idem_store = EmptyDict
    /\ lock_store = EmptyDict
    /\ redisUp = TRUE
    /\ ireq = [r \in IdemReqs |-> IdleIdemReq]
    /\ handlerRuns = 0
    /\ succeeded = EmptyDict
    /\ firstResponse = EmptyDict
    /\ lastIdem = NoIdemCall
    /\ InitVelocity /\ InitRate /\ InitCodes /\ InitAudit

CachedCalls == {<<Token(c), Tx(2, "USD", "m1", "")>> : c \in Consents}

NextCached ==
    \/ \E call \in CachedCalls : AuthorizeStart(1, call[1], call[2])
    \/ AuthorizeResume(1)
    \/ \E c \in Consents : RevokeConsent(c)
    \/ \E t \in {0, 1, CACHE_TTL_SECONDS} : Tick(t)

SpecCached == InitCached /\ [][NextCached]_vars

\* The flusher with more than one batch waiting: the records of the codes
\* -Pending .. -1, issued for the same transaction of cons_1 at time 0, are
\* on the queue, which is far from full.  The loop of flush_auth_queue wakes
\* every second for as long as the process lives, so a flush that can be
\* made is made in the end.
Pending == FLUSH_BATCH_SIZE + 1

InitPending ==
    /\ InitApp /\ InitAudit
    /\ auth_cache = [code \in (-Pending)..(-1) |-> AuthCacheEntry(BacklogRequest, 0)]
    /\ auth_queue = [i \in 1..Pending |-> AuthQueueItem(i - Pending - 1, BacklogRequest, 0)]
    /\ issued = [code \in (-Pending)..(-1) |->
                   [consent_id |-> "cons_1", amount |-> 2, currency |-> "USD",
                    expires_at |-> AUTH_CODE_EXPIRY_SECONDS]]

NextPersist ==
    \/ \E call \in PaidCalls : nextCode <= MaxCodes /\ AuthorizeStart(1, call[1], call[2])
    \/ AuthorizeResume(1)
    \/ FlushAuthQueue
    \/ \E t \in TimePoints : Tick(t)

SpecPersist == InitPending /\ [][NextPersist]_vars /\ WF_vars(FlushAuthQueue)

\* A code from its issue past its expiry, redeemed from the in-memory table
\* or, once it is flushed and the process restarted, from its row; the
\* merchants come one at a time
NextExpiry ==
    \/ \E call \in PaidCalls : nextCode <= MaxPaidCodes /\ AuthorizeStart(1, call[1], call[2])
    \/ AuthorizeResume(1)
    \/ \E code \in 1..nextCode, payment \in Payments :
          VerifyStart(1, code, payment[1], payment[2])
    \/ VerifyMemResume(1)
    \/ VerifyDbResume(1)
    \/ FlushAuthQueue
    \/ Restart
    \/ \E t \in TimePoints : Tick(t)

SpecExpiry == Init /\ [][NextExpiry]_vars

\* The velocity service on its own: transactions are evaluated, and the
\* record/set operations store what completed transactions leave behind.
\* The clock visits midnight and five in the morning (UTC).
VelocityPoints == {0, 5 * 3600, 5 * 3600 + 30}

VelocityTxs == {<<13000, "m1", "">>, <<13000, "m1", "US">>, <<100, "m2", "FR">>}

NextVelocity ==
    \/ \E user_id \in Users, tx \in VelocityTxs : CheckVelocity(user_id, tx[1], tx[2], tx[3])
    \/ \E user_id \in Users : set_user_avg_transaction(user_id, 2000)
    \/ \E user_id \in Users :
          /\ get_recent_transaction_count(velocity_store, now, user_id)
                < MAX_TRANSACTIONS_PER_MINUTE
          /\ increment_transaction_count(user_id)
    \/ \E user_id \in Users : record_merchant_transaction(user_id, "m1")
    \/ \E user_id \in Users, location \in {"US", "FR"} :
          set_transaction_location(user_id, location)
    \/ \E user_id \in Users : record_transaction_time(user_id)
    \/ \E t \in VelocityPoints : Tick(t)

SpecVelocity == InitShop /\ [][NextVelocity]_vars

\* The aggregation of check_velocity applied to every combination of the
\* results of the five rules
RuleResults == {"pass", "warn", "block"}

AggregateResults(results) ==
    /\ lastVelocity' = [NoVelocity EXCEPT !.op = "aggregate", !.result = Aggregate(results)]
    /\ UNCHANGED <<velocity_store, txn_instants>>
    /\ OnlyVelocity

\* The transaction counter of one user over a minute and a half: the
\* instants lie 40 seconds apart, less than the lifetime of the counter
FrequencyPoints == {0, 40, 80, 150}

NextFrequency ==
    \/ \E user_id \in Users, tx \in VelocityTxs : CheckVelocity(user_id, tx[1], tx[2], tx[3])
    \/ \E user_id \in Users :
          /\ get_recent_transaction_count(velocity_store, now, user_id)
                < MAX_TRANSACTIONS_PER_MINUTE
          /\ increment_transaction_count(user_id)
    \/ \E t \in FrequencyPoints : Tick(t)

SpecFrequency == InitShop /\ [][NextFrequency]_vars

NextAggregate == \E results \in [1..5 -> RuleResults] : AggregateResults(results)

SpecAggregate == InitShop /\ [][NextAggregate]_vars

\* authorize with the consent store failing under it, for a transaction
\* within the constraints of its token, one beyond them and a forged token
StoreDownCalls ==
    { <<Token("cons_1"), Tx(2, "USD", "m2", "cat2")>>,
      <<Token("cons_2"), Tx(2, "EUR", "m1", "cat1")>>,
      <<Forged("cons_1"), Tx(2, "USD", "m2", "cat2")>> }

NextStoreDown ==
    \/ \E r \in AuthReqs, call \in StoreDownCalls : AuthorizeStart(r, call[1], call[2])
    \/ \E r \in AuthReqs : AuthorizeResume(r)
    \/ \E r \in AuthReqs, outcome \in {"raise", "unknown"} : AuthorizeStoreDown(r, outcome)
    \/ \E c \in Consents : RevokeConsent(c)
    \/ \E t \in TimePoints : Tick(t)

SpecStoreDown == Init /\ [][NextStoreDown]_vars

\* The rate limiter, with one caller two requests short of its limit in the
\* window the clock is in: 98 of its requests were counted and have reached
\* the handler.
ClientHost == <<"1", "0", ".", "0", ".", "0", ".", "1">>

RateRequests ==
    { RateRequest(<<"v1", "authorize">>, Bearer(KeyAcmeEu), <<>>, ClientHost),
      RateRequest(<<"v1", "authorize">>, <<>>, KeyAcmeUs, ClientHost),
      RateRequest(<<"v1", "authorize">>, <<>>, <<>>, ClientHost),
      RateRequest(<<"health">>, Bearer(KeyAcmeEu), <<>>, ClientHost) }

BusyCaller == RateIdentity(RateRequest(<<"v1", "authorize">>, Bearer(KeyAcmeEu), <<>>, ClientHost))

RatePoints == 0 .. (API_KEY_WINDOW_SECONDS * RATE_KEY_TTL_WINDOWS * MaxPeriods)

InitThrottled ==
    /\ InitCore(Consents) /\ InitVelocity /\ InitCodes /\ InitAudit
    /\ rate_counters =
          Put(EmptyDict, RateLimitKey(BusyCaller.key, 0),
              [value |-> BusyCaller.max_requests - 2,
               expires_at |-> API_KEY_WINDOW_SECONDS * RATE_KEY_TTL_WINDOWS])
    /\ rreq = [r \in RateReqs |-> IdleRateReq]
    /\ rateCalls = 0
    /\ rate_limit_store = EmptyDict
    /\ reached = Put(EmptyDict, <<BusyCaller.key, 0>>, BusyCaller.max_requests - 2)
    /\ lastRate = NoRate

NextRate ==
    \/ \E r \in RateReqs : \E request \in RateRequests : RateDispatch(r, request)
    \/ \E r \in RateReqs : RateCheck(r)
    \/ \E r \in RateReqs : RateCallNext(r)
    \/ \E t \in RatePoints : Tick(t)

SpecRate == InitThrottled /\ [][NextRate]_vars

\* The same with Redis failing and recovering
NextRateFault ==
    \/ \E r \in RateReqs : \E request \in RateRequests : RateDispatch(r, request)
    \/ \E r \in RateReqs : RateCheck(r)
    \/ \E r \in RateReqs : RateCallNext(r)
    \/ RedisFail
    \/ RedisRecover

SpecRateFault == InitThrottled /\ [][NextRateFault]_vars

\* The rate limiter on its in-memory store, with a client known by its IP
\* address that has had 100 requests let through in this second
IpCaller == RateIdentity(RateRequest(<<"v1", "authorize">>, <<>>, <<>>, ClientHost))

FallbackPoints == {0, IP_WINDOW_SECONDS - 1, IP_WINDOW_SECONDS}

InitFallback ==
    /\ InitCore(Consents) /\ InitVelocity /\ InitCodes /\ InitAudit
    /\ rate_counters = EmptyDict
    /\ rreq = [r \in RateReqs |-> IdleRateReq]
    /\ rateCalls = 0
    /\ rate_limit_store = Put(EmptyDict, IpCaller.key, [i \in 1..REQUESTS_PER_MINUTE |-> 0])
    /\ reached = Put(EmptyDict, <<IpCaller.key, 0>>, REQUESTS_PER_MINUTE)
    /\ lastRate = NoRate

NextFallback ==
    \/ \E r \in RateReqs : \E request \in RateRequests : RateDispatchFallback(r, request)
    \/ \E r \in RateReqs : RateCallNext(r)
    \/ \E t \in FallbackPoints : Tick(t)

SpecFallback == InitFallback /\ [][NextFallback]_vars

\* The idempotency middleware with Redis reachable
NextIdem ==
    \/ \E r \in IdemReqs, key \in CacheKeys : IdemStart(r, key)
    \/ \E r \in IdemReqs : IdemAcquireLock(r)
    \/ \E r \in IdemReqs, status \in HandlerStatuses : IdemHandler(r, status)
    \/ \E r \in IdemReqs : IdemCacheResponse(r)
    \/ \E r \in IdemReqs : IdemReleaseLock(r)
    \/ \E t \in LockTimePoints : Tick(t)

SpecIdem == Init /\ [][NextIdem]_vars

\* ... and with Redis failing and recovering
NextIdemFault ==
    \/ NextIdem
    \/ RedisFail
    \/ RedisRecover

SpecIdemFault == Init /\ [][NextIdemFault]_vars

\* The audit service some way into its life: developer dev_1 has logged all
\* but two of the entries that fill the buffer, which is written to the store
\* when it holds BUFFER_SIZE entries.
Prefilled == BUFFER_SIZE - 2

PrefilledEntry(i) ==
    [event_id |-> i, timestamp |-> i, developer_id |-> "dev_1", details |-> "d0",
     previous_hash |-> IF i = 1 THEN GENESIS_HASH ELSE i - 1, record_hash |-> i]

InitLogged ==
    /\ audit_last_hash = Prefilled
    /\ audit_buffer = [i \in 1..Prefilled |-> PrefilledEntry(i)]
    /\ audit_store = EmptyDict
    /\ audit_events = Prefilled
    /\ sha256 = [i \in 1..Prefilled |-> HashedData(PrefilledEntry(i))]
    /\ tenant_last = [d \in {"dev_1"} |-> Prefilled]
    /\ tampered = NoEvent
    /\ lastAudit = NoAudit

\* the stored entries someone may rewrite: the oldest and the latest ones
TamperTargets == {1} \cup (Prefilled..(Prefilled + MaxLogs))

NextAudit ==
    \/ \E developer_id \in Tenants, details \in Details :
          audit_events < Prefilled + MaxLogs /\ Log(developer_id, details)
    \/ \E developer_id \in Tenants : VerifyIntegrity(developer_id)
    \/ \E developer_id \in Tenants, event_id \in TamperTargets : Tamper(developer_id, event_id)

InitLedger == InitService /\ InitLogged

SpecAudit == InitLedger /\ [][NextAudit]_vars

\* The audit service with Redis failing and recovering between the calls
NextAuditFault ==
    \/ \E developer_id \in Tenants, details \in Details :
          audit_events < Prefilled + MaxLogs /\ Log(developer_id, details)
    \/ \E developer_id \in Tenants : VerifyIntegrity(developer_id)
    \/ RedisFail
    \/ RedisRecover

SpecAuditFault == InitLedger /\ [][NextAuditFault]_vars

\* The middleware from the first line of dispatch, at one instant (nothing
\* expires), with Redis reachable
NextDispatch ==
    \/ \E r \in IdemReqs, request \in DispatchRequests : Dispatch(r, request)
    \/ \E r \in IdemReqs, status \in HandlerStatuses : CallNext(r, status)
    \/ \E r \in IdemReqs : IdemAcquireLock(r)
    \/ \E r \in IdemReqs, status \in HandlerStatuses : IdemHandler(r, status)
    \/ \E r \in IdemReqs : IdemCacheResponse(r)
    \/ \E r \in IdemReqs : IdemReleaseLock(r)

SpecDispatch == Init /\ [][NextDispatch]_vars

\* The middleware with the clock running on: time passes whatever the
\* requests do.  The clock of the model stops at LastInstant, so a lock is
\* only asked for while its lifetime ends by then.
LastInstant == LOCK_TTL_SECONDS * MaxPeriods + 1

NextIdemClock ==
    \/ \E r \in IdemReqs, key \in CacheKeys : IdemStart(r, key)
    \/ \E r \in IdemReqs : now + LOCK_TTL_SECONDS <= LastInstant /\ IdemAcquireLock(r)
    \/ \E r \in IdemReqs, status \in HandlerStatuses : IdemHandler(r, status)
    \/ \E r \in IdemReqs : IdemCacheResponse(r)
    \/ \E r \in IdemReqs : IdemReleaseLock(r)
    \/ \E t \in LockTimePoints : Tick(t)

SpecIdemClock ==
    Init /\ [][NextIdemClock]_vars /\ WF_vars(\E t \in LockTimePoints : Tick(t))

----------------------------------------------------------------------------
(* Properties of authorize and verify.  lastAuth and lastVerify hold the     *)
(* call that returned last; every call is the last one when it returns, so a *)
(* property of lastAuth or lastVerify in every state is one of every call.   *)

\* C1: sequential single use.  A verify of an issued code with the matching
\* amount and currency, made before expiry, with no verify of that code having
\* returned valid=true before it returned, returns valid=true; every verify
\* that begins after a verify of the same code returned valid=true returns
\* valid=false with error authorization_already_used.
SequentialSingleUse ==
    lastVerify.authorization_code # NoCode =>
        /\ ( /\ Redeemable(lastVerify)
             /\ ~lastVerify.verifiedAtStart /\ ~lastVerify.overtaken ) => lastVerify.valid
        /\ lastVerify.verifiedAtStart =>
               ~lastVerify.valid /\ lastVerify.error = "authorization_already_used"

SequentialSingleUseWitness ==
    /\ lastVerify.asked.issued /\ lastVerify.asked.matching
    /\ lastVerify.verifiedAtStart
    /\ verified[lastVerify.authorization_code]
    /\ lastVerify.error = "authorization_already_used"

\* C2: concurrent redemption.  Of the verify calls that ran concurrently for
\* the same unused, unexpired code with the matching amount and currency,
\* exactly one returns valid=true: a call that returns valid=true was not
\* overtaken by another such call returning valid=true, and a call that
\* returns valid=false was.
ConcurrentRedemption ==
    (Redeemable(lastVerify) /\ ~lastVerify.verifiedAtStart)
    => /\ ~(lastVerify.valid /\ lastVerify.overtakenByMatching)
       /\ lastVerify.valid \/ lastVerify.overtaken

\* C3: single redemption over both lookup paths.  Of the verify calls made
\* one after the other for one code, whichever of the in-memory table and the
\* durable store serves them, at most one returns valid=true: no call that
\* begins after valid=true was returned for its code returns valid=true.
SingleRedemption == ~(lastVerify.valid /\ lastVerify.verifiedAtStart)

\* C6: revocation is honoured.  An authorize that begins after the revoke of
\* its consent has completed, with a validly signed, unexpired token and a
\* transaction the token admits, returns DENY with reason consent_invalid and
\* no authorization code.
RevocationHonoured ==
    (lastAuth.revokedAtStart /\ lastAuth.tokenOk)
    => /\ lastAuth.decision = "DENY"
       /\ lastAuth.reason = "consent_invalid"
       /\ lastAuth.authorization_code = NoCode

\* C7: a signed token of a live consent (active, not revoked, not expired) and
\* a transaction within its constraints get ALLOW with an authorization code,
\* an expires_at and the consent's id.
AllowWithinConstraints ==
    (lastAuth.token.signed /\ lastAuth.liveAtStart /\ lastAuth.asked.within)
    => /\ lastAuth.decision = "ALLOW"
       /\ lastAuth.authorization_code \in DOMAIN issued
       /\ lastAuth.expires_at # NoTime
       /\ lastAuth.consent_id = lastAuth.token.consent_id

AllowWithinConstraintsWitness ==
    /\ lastAuth.token.signed /\ lastAuth.liveAtStart /\ lastAuth.asked.within
    /\ lastAuth.token.consent_id = "cons_2"
    /\ lastAuth.decision = "ALLOW"

\* C8: a signed, unexpired token and an amount above the consent's max_amount
\* get DENY with reason amount_exceeded and no authorization code, whatever
\* the rest of the transaction and the state of the consent; no code is ever
\* issued for an amount above the limit.
DenyAmountExceeded ==
    /\ (lastAuth.token.signed /\ lastAuth.asked.tokenLive /\ lastAuth.asked.exceeds)
       => /\ lastAuth.decision = "DENY"
          /\ lastAuth.reason = "amount_exceeded"
          /\ lastAuth.authorization_code = NoCode
    /\ \A code \in DOMAIN issued :
           issued[code].amount <= ConsentConstraints(issued[code].consent_id).max_amount

DenyAmountExceededWitness ==
    /\ lastAuth.token.signed /\ lastAuth.asked.tokenLive /\ lastAuth.asked.exceeds
    /\ lastAuth.revokedAtStart
    /\ lastAuth.reason = "amount_exceeded"

----------------------------------------------------------------------------
(* Properties of the idempotency middleware.  lastIdem is the request that   *)
(* has just been answered.                                                   *)

\* C4: at most once per key.  For each cache key the handler completes with a
\* 2xx response at most once (all instants of the model lie within the 24 h
\* lifetime of the cached response).
AtMostOncePerKey == \A key \in DOMAIN succeeded : succeeded[key] <= 1

\* C5: replay.  A request that begins after a 2xx response has been returned
\* for its cache key returns the status code and the body of the first such
\* response, marked Idempotent-Replayed, and the handler is not invoked for it.
ReplayOfFirstResponse ==
    lastIdem.hadFirst
    => /\ lastIdem.outcome.status_code = firstResponse[lastIdem.cache_key].status_code
       /\ lastIdem.outcome.body = firstResponse[lastIdem.cache_key].body
       /\ lastIdem.outcome.replayed
       /\ ~lastIdem.invoked

\* C9: in-flight conflict.  A request that asks for the lock while another
\* request with the same cache key holds it and is still being processed, and
\* no response is cached, is answered 409 idempotency_conflict without the
\* handler being invoked for it: it never gets past the lock.
InFlightConflict ==
    /\ \A r \in IdemReqs : ~ireq[r].call.contended
    /\ lastIdem.contended
       => /\ lastIdem.outcome.status_code = 409
          /\ lastIdem.outcome.error = "idempotency_conflict"
          /\ ~lastIdem.invoked

InFlightConflictWitness ==
    /\ lastIdem.contended
    /\ lastIdem.outcome.status_code = 409
    /\ \E h \in IdemReqs : HoldsLock(h, lastIdem.cache_key) /\ ireq[h].pc = "handler"

\* C10: single writer per key.  At every moment at most one request per cache
\* key is between its lock acquisition and its lock release, also when a
\* request outlives the lock's 60 s and when Redis is unreachable.
SingleWriterPerKey ==
    \A r, q \in IdemReqs :
        (r # q /\ ireq[r].call.cache_key = ireq[q].call.cache_key)
        => ~(InHandler(r) /\ InHandler(q))

\* C11: a lock never blocks its key forever.  When a request that went through
\* the handler has been answered (2xx, non-2xx or exception) the lock of its
\* key is gone; and a lock that is there is eventually not there any more,
\* released or expired after its 60 s, also when its holder never finishes, so
\* that a request asking for it is not answered idempotency_conflict.
LockNeverBlocksForever ==
    /\ [](lastIdem.invoked => ~Live(lock_store, lastIdem.cache_key, now))
    /\ \A key \in CacheKeys :
           Live(lock_store, key, now) ~> ~Live(lock_store, key, now)

\* the lock has expired under a holder that is still being processed
LockNeverBlocksForeverWitness ==
    \E r \in IdemReqs :
        /\ ireq[r].pc = "handler"
        /\ ireq[r].call.cache_key \in DOMAIN lock_store
        /\ lock_store[ireq[r].call.cache_key].owner = r
        /\ ~Live(lock_store, ireq[r].call.cache_key, now)

\* C12: caller isolation.  A request answered with a cached response is
\* answered with one that was produced for a request with its own API
\* credentials, and a request answered 409 was blocked by the lock of a
\* request with its own API credentials: callers with different credentials
\* never share an idempotency record.
CallerIsolation ==
    /\ lastIdem.outcome.replayed
       => idem_store[lastIdem.cache_key].caller = Credentials(lastIdem.request)
    /\ lastIdem.outcome.status_code = 409
       => \A h \in IdemReqs :
              HoldsLock(h, lastIdem.cache_key)
              => Credentials(ireq[h].call.request) = Credentials(lastIdem.request)

\* C13: the key is required.  A POST or PUT to an idempotent endpoint reaches
\* the handler only with an Idempotency-Key of at least 16 characters; one
\* whose key is missing or shorter is answered 400 and the handler does not
\* run for it.
KeyRequired ==
    ( /\ lastIdem.request.method \in {"POST", "PUT"}
      /\ RequiresIdempotency(lastIdem.request.path) )
    => /\ lastIdem.invoked => Len(lastIdem.request.idempotency_key) >= MIN_KEY_LENGTH
       /\ Len(lastIdem.request.idempotency_key) < MIN_KEY_LENGTH
          => ~lastIdem.invoked /\ lastIdem.outcome.status_code = 400

----------------------------------------------------------------------------
(* Properties of the persistence queue *)

\* the authorization codes waiting on the queue
Queued == {auth_queue[i].authorization_code : i \in 1..Len(auth_queue)}

\* C18: a code is redeemable at once.  A verify of an issued code with the
\* matching amount and currency, before expiry, the first for its code, that
\* returns while the flusher has not written the code's row, returns
\* valid=true; and when authorize returns ALLOW the code is in the in-memory
\* table and on no durable row: authorize has not waited for the write, and a
\* failed write leaves its answer as it is.
RedeemableAtOnce ==
    /\ ( /\ Redeemable(lastVerify)
         /\ ~lastVerify.verifiedAtStart /\ ~lastVerify.overtaken
         /\ lastVerify.authorization_code \notin DOMAIN authDb ) => lastVerify.valid
    /\ lastAuth.decision = "ALLOW"
       => /\ lastAuth.authorization_code \in DOMAIN auth_cache
          /\ lastAuth.authorization_code \notin DOMAIN authDb

\* a code is redeemed while its record is still on the queue
RedeemableAtOnceWitness ==
    /\ lastVerify.valid
    /\ lastVerify.authorization_code \in Queued
    /\ lastVerify.authorization_code \notin DOMAIN authDb

\* C19: the queue is bounded.  The queue never holds more than
\* AUTH_QUEUE_MAXLEN records; every ALLOW leaves the record of its code at the
\* tail of the queue, behind the records that were there, of which the oldest
\* is gone if the queue was full; and the ALLOW response carries its code and
\* expiry all the same.
QueueBounded ==
    /\ [](Len(auth_queue) <= AUTH_QUEUE_MAXLEN)
    /\ [][lastAuth'.decision = "ALLOW"
          => /\ Len(auth_queue') > 0
             /\ auth_queue'[Len(auth_queue')].authorization_code = lastAuth'.authorization_code
             /\ SubSeq(auth_queue', 1, Len(auth_queue') - 1) =
                    (IF Len(auth_queue) >= AUTH_QUEUE_MAXLEN THEN Tail(auth_queue)
                     ELSE auth_queue)
             /\ lastAuth'.authorization_code \in DOMAIN auth_cache'
             /\ lastAuth'.expires_at = now + AUTH_CODE_EXPIRY_SECONDS]_vars

\* an ALLOW met a full queue: the oldest record is gone, the new one is there
QueueBoundedWitness ==
    /\ lastAuth.decision = "ALLOW"
    /\ Len(auth_queue) = AUTH_QUEUE_MAXLEN
    /\ auth_queue[1].authorization_code = 1 - Backlog
    /\ lastAuth.authorization_code \in Queued

\* C20: a failed flush does not lose its batch.  The record of every code
\* issued is on the queue, to be written or written again, or in the durable
\* store (in a life of the process in which the queue never overflows).
FailedFlushKeepsBatch ==
    \A code \in DOMAIN issued : code \in Queued \/ code \in DOMAIN authDb

----------------------------------------------------------------------------
(* Properties of the audit ledger.  lastAudit is the call of the audit      *)
(* service that has just returned.                                          *)

\* C14: an untampered ledger verifies.  Whatever log calls were made, by
\* whichever tenants in whichever order, with no stored entry modified,
\* verify_integrity returns valid=true for the tenant it is asked about.
UntamperedLedgerVerifies ==
    (lastAudit.op = "verify_integrity" /\ tampered = NoEvent) => lastAudit.valid

\* C15: tamper detection.  When the details of one stored entry of a tenant
\* have been changed, verify_integrity for that tenant returns valid=false
\* with an error that names the event_id of that entry.
TamperDetected ==
    ( /\ lastAudit.op = "verify_integrity"
      /\ tampered # NoEvent
      /\ \E i \in 1..Len(query(lastAudit.developer_id, QUERY_LIMIT)) :
            query(lastAudit.developer_id, QUERY_LIMIT)[i].event_id = tampered )
    => ~lastAudit.valid /\ tampered \in lastAudit.errors

\* C16: the chain is per tenant.  The previous_hash of every appended entry
\* is the record_hash of the entry appended before it for the same
\* developer_id, or the genesis hash for the first entry of that developer_id.
ChainPerTenant ==
    lastAudit.op = "log" => lastAudit.entry.previous_hash = lastAudit.expected

\* C17: every decision is audited.  The step in which authorize returns its
\* decision (ALLOW or DENY), and the step in which verify returns its outcome
\* (valid or not), has appended an entry to the audit ledger.
DecisionsAudited ==
    /\ lastAuth.decision # "" => lastAudit.op = "log"
    /\ lastVerify.authorization_code # NoCode => lastAudit.op = "log"

----------------------------------------------------------------------------
(* Properties of the velocity checks.  lastVelocity is the call of          *)
(* check_velocity that has just returned.                                    *)

\* what check_velocity says of the transaction of the authorize call that has
\* just returned
VelocityOfLastAuth ==
    check_velocity(velocity_store, now, ConsentUser(lastAuth.token.consent_id),
                   lastAuth.tx.amount, lastAuth.tx.merchant_id, "")

\* C21: authorize consults the velocity check.  An authorize call that has
\* passed the token and the consent check returns DENY with reason
\* velocity_blocked when the risk score of its transaction is 50 or more and
\* STEP_UP when it is from 25 to 49, and issues no code in either case.
VelocityConsulted ==
    (lastAuth.decision # "" /\ lastAuth.tokenOk /\ lastAuth.reason # "consent_invalid")
    => /\ VelocityOfLastAuth.risk_score >= 2 * DECLINE_SCORE
          => /\ lastAuth.decision = "DENY"
             /\ lastAuth.reason = "velocity_blocked"
             /\ lastAuth.authorization_code = NoCode
       /\ ( /\ VelocityOfLastAuth.risk_score >= 2 * VERIFY_SCORE
            /\ VelocityOfLastAuth.risk_score < 2 * DECLINE_SCORE )
          => /\ lastAuth.decision = "STEP_UP"
             /\ lastAuth.authorization_code = NoCode

----------------------------------------------------------------------------
(* Properties of the rate limiter *)

\* the limit of a caller identity
LimitOf(identity) ==
    IF StartsWith(identity, <<"a", "p", "i", "k", "e", "y", ":">>)
    THEN RATE_LIMIT_REQUESTS_PER_SECOND
    ELSE REQUESTS_PER_MINUTE

\* C22: of the requests of one caller identity that the check puts in one
\* rate-limit window, at most `limit` reach the handler, and a request whose
\* increment takes the counter past the limit is answered 429
\* rate_limit_exceeded without reaching the handler.
AtMostLimitPerWindow ==
    /\ \A slot \in DOMAIN reached : reached[slot] <= LimitOf(slot[1])
    /\ lastRate.current > LimitOf(lastRate.identity) =>
          /\ lastRate.status_code = TOO_MANY_REQUESTS
          /\ lastRate.error = "rate_limit_exceeded"
          /\ ~lastRate.invoked

----------------------------------------------------------------------------
(* Properties of authorize with the consent store failing *)

\* C24: an authorize call whose consent was not in the cache and whose
\* consent query failed does not return ALLOW, returns no authorization
\* code, and puts nothing into the code table or onto the queue.
FailsClosed ==
    [][lastAuth'.storeFailed =>
          /\ lastAuth'.decision # "ALLOW"
          /\ lastAuth'.authorization_code = NoCode
          /\ UNCHANGED <<auth_cache, auth_queue, issued>>]_vars

\* the consent query failed for a valid token of a live consent
FailsClosedWitness ==
    /\ lastAuth.storeFailed
    /\ lastAuth.tokenOk
    /\ lastAuth.liveAtStart
    /\ lastAuth.decision = ""
    /\ lastAuth.reason = "internal_error"

----------------------------------------------------------------------------
(* Properties of verify at the expiry of a code and on the amount *)

\* C25: a verify of an issued, unused code with the authorized amount and
\* currency, on the in-memory path and on the durable path, returns
\* valid=true at every instant up to one second before expires_at and
\* valid=false with authorization_expired from one second after it.
ExpiryBoundary ==
    LET call == lastVerify
        otherwiseValid == /\ call.asked.issued
                          /\ call.asked.matching
                          /\ ~call.verifiedAtStart
                          /\ call.path \in {"memory", "durable"}
    IN  /\ (otherwiseValid /\ call.asked.beforeExpiry) => call.valid
        /\ (otherwiseValid /\ call.asked.afterExpiry) =>
               ~call.valid /\ call.error = "authorization_expired"

\* a code refused on the durable path one second after it expired
ExpiryBoundaryWitness ==
    /\ lastVerify.path = "durable"
    /\ lastVerify.asked.issued /\ lastVerify.asked.matching /\ ~lastVerify.verifiedAtStart
    /\ now = issued[lastVerify.authorization_code].expires_at + 1
    /\ lastVerify.error = "authorization_expired"

\* C26: verify returns valid=true only for a request whose amount is exactly
\* the authorized amount and whose currency is the authorized currency.
ExactMatchOnly ==
    lastVerify.valid => (lastVerify.asked.issued /\ lastVerify.asked.matching)

----------------------------------------------------------------------------
(* Properties of the merchant and category restrictions *)

\* C27: a token whose consent restricts the merchants is valid for a
\* transaction only if the merchant of the transaction is one of them, and
\* likewise for the categories; a transaction that names no merchant or no
\* category is not exempt.
RestrictionsApply ==
    LET k == ConsentConstraints(lastAuth.token.consent_id)
        tx == lastAuth.tx
    IN  lastAuth.tokenOk =>
          /\ k.allowed_merchants # {} => tx.merchant_id \in k.allowed_merchants
          /\ k.allowed_categories # {} => tx.merchant_category \in k.allowed_categories

----------------------------------------------------------------------------
(* Properties of the velocity service *)

\* C28: for a user whose historical average is 20.00, a transaction of
\* 130.00 that triggers no other rule gets amount_spike = BLOCK, a risk
\* score of at least 50, the recommendation decline and allowed = false.
SpikeDeclines ==
    LET call == lastVelocity
    IN  (/\ call.op = "check_velocity"
         /\ get_user_avg_transaction(velocity_store, now, call.user_id) = 2000
         /\ call.amount = 13000
         /\ \A i \in 2..5 : call.result.results[i] = "pass")
        => /\ call.result.results[1] = "block"
           /\ call.result.risk_score >= 2 * 50
           /\ call.result.recommendation = "decline"
           /\ ~call.result.allowed

\* what a rule result adds to twice the score, for a rule of weight w
HalfPoints(result, w) == IF result = "block" THEN 2 * w ELSE IF result = "warn" THEN w ELSE 0

----------------------------------------------------------------------------
(* Properties of single-use consents *)

\* C31: over all authorize calls that present the token of a consent
\* created with single_use = true, at most one returns ALLOW.
SingleUseConsent ==
    \A c \in Consents :
        ConsentSingleUse(c) =>
            Cardinality({code \in DOMAIN issued : issued[code].consent_id = c}) <= 1

----------------------------------------------------------------------------
(* Properties of the in-memory rate limiter *)

\* the requests of an identity that reached the handler from instant t0 to
\* less than 60 seconds later
RECURSIVE PassedIn(_, _, _)
PassedIn(slots, identity, t0) ==
    IF slots = {} THEN 0
    ELSE LET slot == CHOOSE x \in slots : TRUE
         IN  (IF slot[1] = identity /\ t0 <= slot[2] /\ slot[2] < t0 + IP_WINDOW_SECONDS
              THEN reached[slot] ELSE 0)
             + PassedIn(slots \ {slot}, identity, t0)

\* C32: with the in-memory limiter in use, a client identified by its IP
\* address has at most 100 requests passed to the handler in any window of
\* 60 seconds.
IpLimitPerMinute ==
    \A slot \in DOMAIN reached :
        StartsWith(slot[1], <<"i", "p", ":">>) =>
            PassedIn(DOMAIN reached, slot[1], slot[2]) <= 100

----------------------------------------------------------------------------
(* Properties of what the idempotency middleware caches *)

Is2xx(status_code) == 200 <= status_code /\ status_code < 300

\* C33: only 2xx responses are cached: every idempotency record holds a 2xx
\* response and only such a response is replayed; when call_next answered
\* with another status or raised, the lock of the key is gone once dispatch
\* has returned, and nothing is cached for the key by that request.
OnlySuccessCached ==
    /\ \A key \in DOMAIN idem_store : Is2xx(idem_store[key].status_code)
    /\ \A r \in IdemReqs : ireq[r].pc = "cache" => Is2xx(ireq[r].response.status_code)
    /\ lastIdem.outcome.replayed => Is2xx(lastIdem.outcome.status_code)
    /\ (lastIdem.invoked /\ ~Is2xx(lastIdem.outcome.status_code)) =>
          ~Live(lock_store, lastIdem.cache_key, now)

\* the handler has run a second time for a key whose first run was answered
\* 429 or raised
OnlySuccessCachedWitness ==
    /\ lastIdem.invoked
    /\ Is2xx(lastIdem.outcome.status_code)
    /\ ~lastIdem.outcome.replayed
    /\ handlerRuns = 2
    /\ succeeded[lastIdem.cache_key] = 1

----------------------------------------------------------------------------
(* Properties of the background flusher *)

\* C34: with the store accepting writes and the queue not overflowing, the
\* record of every code issued ends up in the durable store; a flush cycle
\* takes at most 100 records, the oldest on the queue, and writes each of
\* them, none of which was written before.
PersistenceLiveness ==
    /\ []<>(\A code \in DOMAIN issued : code \in DOMAIN authDb)
    /\ [](\A code \in DOMAIN issued :
             \/ code \in DOMAIN authDb
             \/ \E i \in 1..Len(auth_queue) : auth_queue[i].authorization_code = code)
    /\ [][Len(auth_queue') < Len(auth_queue) =>
            LET k == Len(auth_queue) - Len(auth_queue')
                taken == {auth_queue[i].authorization_code : i \in 1..k}
            IN  /\ k <= 100
                /\ auth_queue' = SubSeq(auth_queue, k + 1, Len(auth_queue))
                /\ taken \cap DOMAIN authDb = {}
                /\ DOMAIN authDb' = DOMAIN authDb \cup taken
                /\ \A i \in 1..k :
                       authDb'[auth_queue[i].authorization_code]
                          = AuthorizationRow(auth_queue[i])]_vars

\* everything issued has been written: the 101 records that were waiting,
\* in two cycles, and the record of a code issued since
PersistenceLivenessWitness ==
    /\ auth_queue = <<>>
    /\ nextCode > 1
    /\ \A code \in DOMAIN issued : code \in DOMAIN authDb
    /\ Cardinality(DOMAIN authDb) > FLUSH_BATCH_SIZE + 1

----------------------------------------------------------------------------
(* Properties of the audit buffer *)

\* C35: every entry that log() has returned is in the buffer of the service
\* or stored under its tenant, also after a flush that failed.
NoAuditEntryLost ==
    \A event_id \in 1..audit_events :
        \/ \E i \in 1..Len(audit_buffer) : audit_buffer[i].event_id = event_id
        \/ \E k \in DOMAIN audit_store : \E i \in 1..Len(audit_store[k]) :
              /\ audit_store[k][i].event_id = event_id
              /\ StoreKey(audit_store[k][i].developer_id) = k

----------------------------------------------------------------------------
(* Properties of rejected verifications *)

\* C36: a verify that returns valid=false leaves the in-memory table and the
\* durable records as they were, and a code rejected for its amount or
\* currency is still unused in the table it was read from.
FailedVerifyChangesNothing ==
    /\ [][lastVerify'.error # "" => auth_cache' = auth_cache /\ authDb' = authDb]_vars
    /\ [](lastVerify.error \in {"amount_mismatch", "currency_mismatch"} =>
             LET code == lastVerify.authorization_code
             IN  IF lastVerify.path = "memory"
                 THEN code \in DOMAIN auth_cache /\ ~auth_cache[code].is_used
                 ELSE code \in DOMAIN authDb /\ ~authDb[code].is_used)

\* a code rejected for a wrong amount while it could still be redeemed
FailedVerifyChangesNothingWitness ==
    /\ lastVerify.error = "amount_mismatch"
    /\ lastVerify.asked.issued /\ lastVerify.asked.beforeExpiry
    /\ lastVerify.authorization_code \notin DOMAIN verified

----------------------------------------------------------------------------
(* Properties of the issue of codes *)

\* C37: a DENY leaves the code table and the queue unchanged; an ALLOW adds
\* one entry under the returned code and one record at the tail of the
\* queue, both with the consent, amount, currency and expiry of the answer;
\* no other step adds a code.
CodesOnlyForAllow ==
    [][ /\ lastAuth'.decision = "DENY" =>
              auth_cache' = auth_cache /\ auth_queue' = auth_queue
        /\ lastAuth'.decision = "ALLOW" =>
              LET code == lastAuth'.authorization_code
                  fields == [consent_id |-> lastAuth'.consent_id,
                             amount |-> lastAuth'.tx.amount,
                             currency |-> lastAuth'.tx.currency,
                             expires_at |-> lastAuth'.expires_at]
              IN  /\ code \notin DOMAIN auth_cache
                  /\ DOMAIN auth_cache' = DOMAIN auth_cache \cup {code}
                  /\ \A other \in DOMAIN auth_cache : auth_cache'[other] = auth_cache[other]
                  /\ [f \in DOMAIN fields |-> auth_cache'[code][f]] = fields
                  /\ Len(auth_queue') = Len(auth_queue) + 1
                  /\ SubSeq(auth_queue', 1, Len(auth_queue)) = auth_queue
                  /\ auth_queue'[Len(auth_queue')].authorization_code = code
                  /\ [f \in DOMAIN fields |-> auth_queue'[Len(auth_queue')][f]] = fields
        /\ lastAuth'.decision # "ALLOW" =>
              DOMAIN auth_cache' \subseteq DOMAIN auth_cache /\ Len(auth_queue') <= Len(auth_queue)
      ]_vars

\* a second code has been issued after a DENY in between or before
CodesOnlyForAllowWitness ==
    /\ lastAuth.decision = "ALLOW"
    /\ Cardinality(DOMAIN auth_cache) = 2
    /\ Len(auth_queue) = 2
    /\ auth_queue[2].authorization_code = lastAuth.authorization_code

----------------------------------------------------------------------------
(* Properties of the consent cache *)

\* C38: a decision taken from the consent cache uses an entry less than 300
\* seconds old; a lookup that does not find such an entry leaves none for
\* the consent and reads the row of the store as it is then, so an authorize
\* that starts after a revocation returns ALLOW only from an entry less
\* than 300 seconds old.
ConsentCacheTTL ==
    [][ /\ (lastAuth'.decision # "" /\ lastAuth'.tokenOk /\ areq' = areq) =>
              LET c == lastAuth'.token.consent_id
              IN  c \in DOMAIN consent_cache /\ now - consent_cache[c].cached_at < 300
        /\ \A r \in AuthReqs :
              (areq[r].pc = "idle" /\ areq'[r].pc = "await_db") =>
                 LET c == areq'[r].call.token.consent_id
                 IN  /\ c \notin DOMAIN consent_cache'
                     /\ c \in DOMAIN consent_cache => now - consent_cache[c].cached_at >= 300
                     /\ areq'[r].row.found => ~consentDb[c].revoked
        /\ (lastAuth'.decision = "ALLOW" /\ lastAuth'.revokedAtStart) =>
              LET c == lastAuth'.token.consent_id
              IN  /\ areq' = areq
                  /\ c \in DOMAIN consent_cache /\ now - consent_cache[c].cached_at < 300
      ]_vars

\* a lookup 300 seconds after the consent was cached: the entry is gone and
\* the call waits for the row of the store
ConsentCacheTTLWitness ==
    \E r \in AuthReqs :
        /\ areq[r].pc = "await_db"
        /\ now = 300
        /\ areq[r].call.token.consent_id \notin DOMAIN consent_cache
        /\ ~consentDb[areq[r].call.token.consent_id].revoked
        /\ \E code \in DOMAIN issued :
              /\ issued[code].consent_id = areq[r].call.token.consent_id
              /\ issued[code].expires_at = AUTH_CODE_EXPIRY_SECONDS

----------------------------------------------------------------------------
(* Properties of the transaction counter *)

\* C40: the count the frequency rule evaluates for a user is the number of
\* the transactions counted for that user in the 60 seconds before the
\* evaluation.
TrailingWindowCount ==
    lastVelocity.op = "check_velocity" =>
        LET user_id == lastVelocity.user_id
            counted == IF user_id \in DOMAIN txn_instants THEN txn_instants[user_id] ELSE <<>>
        IN  get_recent_transaction_count(velocity_store, now, user_id)
               = Cardinality({i \in 1..Len(counted) : now - counted[i] <= 60})

====
